---- MODULE Spec2Model ----
(***************************************************************************)
(* A model of the HPCSerA run daemon (snakeD): the pure helpers            *)
(* (parse_time_to_minutes, parse_mem_to_mb, pick_queued_run, the log       *)
(* scraper), ensure_profile, the file-level behaviour of                   *)
(* atomic_write_json, and the handle_job / main_loop state machine         *)
(* together with the engine process and the external writers of            *)
(* status.json; and of one invocation of the HPCSerA agent (agent.py).     *)
(*                                                                         *)
(* Python strings that the code parses are sequences of one-character      *)
(* strings; an optional value (None or v) is the sequence <<>> or <<v>>.   *)
(***************************************************************************)
EXTENDS Integers, Sequences, FiniteSets, TLC

VARIABLES
    call,        \* a call of a pure function: its argument and its result
    disk,        \* status.json of each job, as the daemon's file system shows it
    logs,        \* the engine log file of each run of each job
    proc,        \* the engine process the daemon holds (subprocess.Popen)
    d_pc,        \* the daemon's position in main_loop / handle_job
    d_todo,      \* the job directories of this listing not yet handled
    d_job,       \* handle_job: job_id
    d_run,       \* handle_job: run_id
    d_status,    \* handle_job: the in-memory status dict
    d_last_ids,  \* handle_job: last_ids
    d_rc,        \* handle_job: rc of proc.poll()
    daemon_last, \* history: the last document the daemon persisted per job
    spawns,      \* history: engine spawns per run
    exited,      \* history: the engine exit code per run
    r_snap,      \* the status-refresh writer: its reads so far, the document it holds
    inodes,      \* file system: the content of each inode
    dirent,      \* file system: the inode each name ("path", "tmp") refers to
    writers,     \* each atomic_write_json caller: position, open file, offset
    observed,    \* what a reader of the status file read
    a_pc,        \* the agent invocation's position in main_loop
    a_job,       \* agent: job, the response of look_for_new_job
    a_ret,       \* agent: ret of control_slurm_job_state, the accounting text
    a_result,    \* agent: result of execute_function (stdout, returncode)
    a_log,       \* history: the requests and subprocesses of the invocation, in order
    s_exists,    \* API server: the job folder UPLOAD_FOLDER/<function_id> exists
    s_files,     \* API server: the content of each file of the job folder
    s_resp,      \* API server: the last response of a file-management route
    c_pc,        \* CLI: the command's position
    c_cmd,       \* CLI: the command and its arguments
    c_polls,     \* CLI: passes made of the current polling loop
    c_status,    \* CLI: the status.json content fetched
    c_end,       \* CLI: how the command ended
    c_files,     \* CLI: file_list of the command's own list_files request
    c_log        \* history: what the CLI has sent, counted

agentVars == <<a_pc, a_job, a_ret, a_result, a_log>>
serverVars == <<s_exists, s_files, s_resp>>
cliVars == <<c_pc, c_cmd, c_polls, c_status, c_end, c_files, c_log>>
nonDaemonVars == <<call, inodes, dirent, writers, observed, agentVars, serverVars, cliVars>>
daemonVars == <<disk, logs, proc, d_pc, d_todo, d_job, d_run, d_status, d_last_ids,
                d_rc, daemon_last, spawns, exited, r_snap>>
fsVars == <<inodes, dirent, writers, observed>>
nonFsVars == <<call, disk, logs, proc, d_pc, d_todo, d_job, d_run, d_status, d_last_ids,
               d_rc, daemon_last, spawns, exited, r_snap, agentVars, serverVars, cliVars>>
vars == <<call, disk, logs, proc, d_pc, d_todo, d_job, d_run, d_status, d_last_ids,
          d_rc, daemon_last, spawns, exited, r_snap, inodes, dirent, writers, observed,
          a_pc, a_job, a_ret, a_result, a_log, s_exists, s_files, s_resp,
          c_pc, c_cmd, c_polls, c_status, c_end, c_files, c_log>>

(***************************************************************************)
(* Bounds of the model.                                                    *)
(***************************************************************************)
MaxFields == 4
MaxPickRuns == 3
MaxRuns == 2
MaxRefresh == 1
MaxLogLines == 2
MaxScrapes == 3
MaxRows == 2

Max(a, b) == IF a >= b THEN a ELSE b

(***************************************************************************)
(* Python's str and int: characters, whitespace stripping, split, int().   *)
(***************************************************************************)
\* The characters of the model in code-point order.
CharOrder == <<" ", "+", "-", ".", "0", "1", "2", "3", "4", "5", "6", "7", "8", "9",
               ":", "A", "B", "D", "G", "M", "a", "b", "d", "g", "m">>

CharRank(c) == CHOOSE i \in 1..Len(CharOrder) : CharOrder[i] = c

IsDigit(c) == c \in {"0", "1", "2", "3", "4", "5", "6", "7", "8", "9"}

DigitVal(c) == CharRank(c) - CharRank("0")

RECURSIVE LStrip(_)
LStrip(s) == IF s # <<>> /\ Head(s) = " " THEN LStrip(Tail(s)) ELSE s

RECURSIVE RStrip(_)
RStrip(s) ==
    IF s # <<>> /\ s[Len(s)] = " " THEN RStrip(SubSeq(s, 1, Len(s) - 1)) ELSE s

\* str.strip()
Strip(s) == RStrip(LStrip(s))

\* str.split(sep): the pieces between the separators; "" splits into [""].
RECURSIVE Split(_, _)
Split(s, sep) ==
    IF \E i \in 1..Len(s) : s[i] = sep
    THEN LET i == CHOOSE k \in 1..Len(s) :
                      s[k] = sep /\ \A m \in 1..(k - 1) : s[m] # sep
         IN  <<SubSeq(s, 1, i - 1)>> \o Split(SubSeq(s, i + 1, Len(s)), sep)
    ELSE <<s>>

RECURSIVE DigitsValue(_)
DigitsValue(s) ==
    IF s = <<>> THEN 0
    ELSE 10 * DigitsValue(SubSeq(s, 1, Len(s) - 1)) + DigitVal(s[Len(s)])

\* The digits of int(s)'s literal after surrounding whitespace and a sign.
IntBody(s) ==
    LET t == Strip(s)
    IN  IF t # <<>> /\ t[1] \in {"+", "-"} THEN Tail(t) ELSE t

\* int(s) does not raise ValueError.
IntOk(s) == IntBody(s) # <<>> /\ \A i \in 1..Len(IntBody(s)) : IsDigit(IntBody(s)[i])

\* int(s), for IntOk(s).
IntOf(s) ==
    LET t == Strip(s)
    IN  IF t[1] = "-" THEN 0 - DigitsValue(IntBody(s)) ELSE DigitsValue(IntBody(s))

\* str(n) for n >= 0.
RECURSIVE StrOf(_)
StrOf(n) ==
    IF n < 10 THEN <<CharOrder[CharRank("0") + n]>>
    ELSE StrOf(n \div 10) \o <<CharOrder[CharRank("0") + (n % 10)]>>

\* s < t for Python str (lexicographic by code point).
RECURSIVE StrLess(_, _)
StrLess(s, t) ==
    IF t = <<>> THEN FALSE
    ELSE IF s = <<>> THEN TRUE
    ELSE IF Head(s) # Head(t) THEN CharRank(Head(s)) < CharRank(Head(t))
    ELSE StrLess(Tail(s), Tail(t))

(***************************************************************************)
(* parse_time_to_minutes                                                   *)
(***************************************************************************)
\* A mutant: hours and minutes are swapped.
parse_time_to_minutes_swapped(time_str) ==
    LET parts == Split(Strip(time_str), ":")
    IN  IF Len(parts) # 3 THEN 60
        ELSE IF ~(IntOk(parts[1]) /\ IntOk(parts[2]) /\ IntOk(parts[3])) THEN 60
        ELSE Max(1, IntOf(parts[1]) + IntOf(parts[2]) * 60
                    + (IF IntOf(parts[3]) > 0 THEN 1 ELSE 0))

\* A mutant: seconds are dropped instead of rounded up.
parse_time_to_minutes_floor(time_str) ==
    LET parts == Split(Strip(time_str), ":")
    IN  IF Len(parts) # 3 THEN 60
        ELSE IF ~(IntOk(parts[1]) /\ IntOk(parts[2]) /\ IntOk(parts[3])) THEN 60
        ELSE Max(1, IntOf(parts[1]) * 60 + IntOf(parts[2]))

parse_time_to_minutes(time_str) ==
    LET parts == Split(Strip(time_str), ":")
    IN  IF Len(parts) # 3 THEN 60
        ELSE IF ~(IntOk(parts[1]) /\ IntOk(parts[2]) /\ IntOk(parts[3]))
        THEN 60                                   \* except Exception
        ELSE LET h == IntOf(parts[1])
                 m == IntOf(parts[2])
                 s == IntOf(parts[3])
                 total == h * 60 + m + (IF s > 0 THEN 1 ELSE 0)
             IN  IF total < 1 THEN 1 ELSE total

(***************************************************************************)
(* parse_mem_to_mb.  float() of a literal of the model (digits with at     *)
(* most one point, after whitespace and a sign) is the rational num/den    *)
(* with den a power of ten.  The product with 1024 is exact in binary      *)
(* floating point, and a literal of so few digits is no closer to an       *)
(* integer than the float nearest to it, so int() of the float is the      *)
(* truncation of the rational.                                             *)
(***************************************************************************)
UpperChar(c) ==
    CASE c = "a" -> "A" [] c = "b" -> "B" [] c = "d" -> "D" [] c = "g" -> "G"
      [] c = "m" -> "M" [] OTHER -> c

\* str.upper()
Upper(s) == [i \in 1..Len(s) |-> UpperChar(s[i])]

\* float(s) does not raise ValueError.
FloatOk(s) ==
    LET b == IntBody(s)
    IN  /\ \A i \in 1..Len(b) : IsDigit(b[i]) \/ b[i] = "."
        /\ \E i \in 1..Len(b) : IsDigit(b[i])
        /\ Cardinality({i \in 1..Len(b) : b[i] = "."}) <= 1

RECURSIVE Pow10(_)
Pow10(n) == IF n = 0 THEN 1 ELSE 10 * Pow10(n - 1)

\* float(s), for FloatOk(s).
FloatOf(s) ==
    LET b == IntBody(s)
        point == IF \E i \in 1..Len(b) : b[i] = "."
                 THEN CHOOSE i \in 1..Len(b) : b[i] = "."
                 ELSE Len(b) + 1
        digits == SelectSeq(b, IsDigit)
        mag == DigitsValue(digits)
    IN  [num |-> IF Strip(s)[1] = "-" THEN 0 - mag ELSE mag,
         den |-> Pow10(Len(digits) - (point - 1))]

\* int(num / den): the fraction is cut off, towards zero.
TruncDiv(num, den) == IF num >= 0 THEN num \div den ELSE 0 - ((0 - num) \div den)

\* A mutant: a G counts 1000 megabytes.
parse_mem_to_mb_decimal(mem_str) ==
    LET s == Upper(Strip(mem_str))
        body == SubSeq(s, 1, Len(s) - 1)
    IN  IF s = <<>> THEN <<>>
        ELSE IF s[Len(s)] = "G"
        THEN IF FloatOk(body)
             THEN <<TruncDiv(FloatOf(body).num * 1000, FloatOf(body).den)>>
             ELSE <<>>
        ELSE IF s[Len(s)] = "M"
        THEN IF FloatOk(body) THEN <<TruncDiv(FloatOf(body).num, FloatOf(body).den)>>
             ELSE <<>>
        ELSE IF FloatOk(s) THEN <<TruncDiv(FloatOf(s).num, FloatOf(s).den)>>
        ELSE <<>>

\* mem_str is a str (None reads like ""); the result is <<>> for None.
parse_mem_to_mb(mem_str) ==
    LET s == Upper(Strip(mem_str))
        body == SubSeq(s, 1, Len(s) - 1)                 \* s[:-1]
    IN  IF s = <<>> THEN <<>>
        ELSE IF s[Len(s)] = "G"
        THEN IF FloatOk(body)
             THEN <<TruncDiv(FloatOf(body).num * 1024, FloatOf(body).den)>>
             ELSE <<>>                                   \* except Exception
        ELSE IF s[Len(s)] = "M"
        THEN IF FloatOk(body) THEN <<TruncDiv(FloatOf(body).num, FloatOf(body).den)>>
             ELSE <<>>
        ELSE IF FloatOk(s) THEN <<TruncDiv(FloatOf(s).num, FloatOf(s).den)>>
        ELSE <<>>

(***************************************************************************)
(* ensure_profile.  A value of requested_resources is a JSON value:        *)
(* [t |-> "none"] (key absent or null), [t |-> "int", v |-> n] or          *)
(* [t |-> "str", v |-> s].  The result is the content of config.yaml.      *)
(***************************************************************************)
NoValue == [t |-> "none"]
IntValue(n) == [t |-> "int", v |-> n]
StrValue(s) == [t |-> "str", v |-> s]

\* x or dflt
OrDefault(x, dflt) ==
    IF (x.t = "int" /\ x.v # 0) \/ (x.t = "str" /\ x.v # <<>>) THEN x ELSE dflt

\* int(x) of an int or a str; <<>> when it raises.
IntConv(x) ==
    IF x.t = "int" THEN <<x.v>>
    ELSE IF IntOk(x.v) THEN <<IntOf(x.v)>>
    ELSE <<>>

\* str(x).isdigit()
StrIsDigit(x) ==
    IF x.t = "int" THEN x.v >= 0
    ELSE x.v # <<>> /\ \A i \in 1..Len(x.v) : IsDigit(x.v[i])

\* mem_mb_per_cpu of the try block; <<>> is None.
MemPerCpu(cpus, total_mem_mb) ==
    IF IntConv(cpus) = <<>> THEN <<>>                    \* except Exception
    ELSE LET cpu_i == Max(1, IntConv(cpus)[1])
         IN  IF total_mem_mb = <<>> THEN <<>>
             ELSE <<Max(1, TruncDiv(total_mem_mb[1], cpu_i))>>

ensure_profile(resources) ==
    LET partition == OrDefault(resources.partition, StrValue(<<"m", "e", "d", "i", "u", "m">>))
        time_limit == OrDefault(resources.time,
                          StrValue(<<"0", "1", ":", "0", "0", ":", "0", "0">>))
        cpus == OrDefault(resources.cpus_per_task, IntValue(1))
        mem == OrDefault(resources.mem, StrValue(<<"2", "G">>))
        runtime_min == parse_time_to_minutes(time_limit.v)
        total_mem_mb == IF mem.t = "str" THEN parse_mem_to_mb(mem.v) ELSE <<>>
    IN  [executor |-> "slurm",
         jobs |-> 50,
         slurm_partition |-> partition.v,
         runtime |-> runtime_min,
         cpus_per_task |-> IF StrIsDigit(cpus) THEN IntConv(cpus)[1] ELSE 1,
         mem_mb_per_cpu |-> MemPerCpu(cpus, total_mem_mb)]

(***************************************************************************)
(* pick_queued_run.  runs is the dict in its iteration order: a sequence   *)
(* of [rid, state]; active is status.get("active_run_id").                 *)
(***************************************************************************)
\* queued: the ids of the QUEUED runs, in the dict's order.
RECURSIVE QueuedIds(_)
QueuedIds(runs) ==
    IF runs = <<>> THEN <<>>
    ELSE (IF Head(runs).state = "QUEUED" THEN <<Head(runs).rid>> ELSE <<>>)
         \o QueuedIds(Tail(runs))

InSeq(x, s) == \E i \in 1..Len(s) : s[i] = x

\* sorted(queued, key=int)[0]: the first element with the least key.
FirstMinByInt(q) ==
    q[CHOOSE i \in 1..Len(q) :
          /\ \A k \in 1..Len(q) : IntOf(q[i]) <= IntOf(q[k])
          /\ \A k \in 1..(i - 1) : IntOf(q[k]) # IntOf(q[i])]

\* sorted(queued)[0]
LexMin(q) ==
    q[CHOOSE i \in 1..Len(q) : \A k \in 1..Len(q) : q[k] = q[i] \/ StrLess(q[i], q[k])]

\* A mutant: the active run is not preferred.
pick_queued_run_no_sticky(runs, active) ==
    LET queued == QueuedIds(runs)
    IN  IF queued = <<>> THEN <<>>
        ELSE IF \A i \in 1..Len(queued) : IntOk(queued[i])
        THEN <<FirstMinByInt(queued)>>
        ELSE <<LexMin(queued)>>

\* A mutant: every run that has not FINISHED is eligible.
pick_queued_run_retry_failed(runs, active) ==
    LET eligible == QueuedIds([i \in 1..Len(runs) |->
                        [rid |-> runs[i].rid,
                         state |-> IF runs[i].state = "FAILED" THEN "QUEUED"
                                   ELSE runs[i].state]])
    IN  IF eligible = <<>> THEN <<>>
        ELSE IF active # <<>> /\ InSeq(StrOf(active[1]), eligible)
        THEN <<StrOf(active[1])>>
        ELSE IF \A i \in 1..Len(eligible) : IntOk(eligible[i])
        THEN <<FirstMinByInt(eligible)>>
        ELSE <<LexMin(eligible)>>

pick_queued_run(runs, active) ==
    LET queued == QueuedIds(runs)
    IN  IF queued = <<>> THEN <<>>                       \* return None
        ELSE IF active # <<>> /\ InSeq(StrOf(active[1]), queued)
        THEN <<StrOf(active[1])>>
        ELSE IF \A i \in 1..Len(queued) : IntOk(queued[i])
        THEN <<FirstMinByInt(queued)>>
        ELSE <<LexMin(queued)>>                          \* except Exception

(***************************************************************************)
(* extract_slurm_job_ids_from_log.  A log file is its sequence of lines;   *)
(* a line is [plugin, sbatch]: the integers that the pattern               *)
(* "SLURM jobid N" and the pattern "Submitted batch job N" match in it,    *)
(* left to right.  A file that does not exist reads like the empty one.    *)
(***************************************************************************)
RECURSIVE SortSet(_)
SortSet(S) ==
    IF S = {} THEN <<>>
    ELSE LET m == CHOOSE x \in S : \A y \in S : x <= y
         IN  <<m>> \o SortSet(S \ {m})

Range(s) == {s[i] : i \in 1..Len(s)}

\* What one line adds to job_ids: re.search yields the first match only, and a
\* plugin match skips the sbatch pattern (continue).
LineIds(line) ==
    IF line.plugin # <<>> THEN {line.plugin[1]}
    ELSE IF line.sbatch # <<>> THEN {line.sbatch[1]}
    ELSE {}

RECURSIVE ScanLines(_)
ScanLines(lines) ==
    IF lines = <<>> THEN {} ELSE LineIds(Head(lines)) \cup ScanLines(Tail(lines))

\* readable = FALSE: open() or the iteration raises, and the function returns [].
extract_slurm_job_ids_from_log(lines, readable) ==
    IF readable THEN SortSet(ScanLines(lines)) ELSE <<>>

(***************************************************************************)
(* The status document and handle_job's changes to it.                     *)
(***************************************************************************)
SlurmIds == {101, 102}
ExitCodes == {0, 1, 2}
JobDir == "/ws/job"
\* job_dir values: the execution directory, a path that is no directory, unset.
JobDirValues == {JobDir, "/ws/nodir", ""}
\* snakefile values: a file of job_dir, a name with no file in job_dir, unset.
SnakefileValues == {"wf.smk", "gone.smk", ""}
FilesInJobDir == {"wf.smk"}
Executor == "snakemake-executor-plugin-slurm"

RunNumbers == 1..MaxRuns

\* now_ts(): a timestamp is abstracted to its being set.
now_ts == "TS"

LogName(run_id) == <<"snakemake_run", run_id, ".log">>

QueuedRun(rid, snakefile) ==
    [rid |-> rid, state |-> "QUEUED", snakefile |-> snakefile, started |-> "",
     finished |-> "", log |-> <<>>, slurm |-> <<>>, exit_code |-> <<>>]

\* The document the external "init" action creates: the first run, QUEUED.
InitDoc(job_dir, active, snakefile) ==
    [job_dir |-> job_dir, active |-> active, ws |-> "ACTIVE",
     runs |-> <<QueuedRun(StrOf(1), snakefile)>>]

\* runs[str(run_id)]: the position of the key in the dict.
RunIndex(status, run_id) ==
    CHOOSE i \in 1..Len(status.runs) : status.runs[i].rid = run_id

HasRun(status, run_id) == \E i \in 1..Len(status.runs) : status.runs[i].rid = run_id

RunOf(status, run_id) == status.runs[RunIndex(status, run_id)]

\* A mutant: jobs_submitted stays at the 0 it was created with.
SlurmRecordStaleCount(job_ids, last_update) ==
    [executor |-> Executor, job_ids |-> job_ids, jobs_submitted |-> 0,
     last_update |-> last_update]

SlurmRecord(job_ids, last_update) ==
    [executor |-> Executor, job_ids |-> job_ids, jobs_submitted |-> Len(job_ids),
     last_update |-> last_update]

\* What the status file holds when it is no document: the file does not exist, or
\* its content is not JSON.
NoFile == [job_dir |-> "", active |-> <<>>, ws |-> "no file", runs |-> <<>>]
CorruptFile == [job_dir |-> "", active |-> <<>>, ws |-> "not JSON", runs |-> <<>>]

\* open(status_file) and json.load(f) succeed.
Loads(content) == content \notin {NoFile, CorruptFile}

\* handle_job's early returns (return False); "" when the job is accepted.
RejectReason(status) ==
    IF status.job_dir = "" THEN "job_dir missing"
    ELSE IF status.job_dir # JobDir THEN "job_dir does not exist"
    ELSE LET picked == pick_queued_run(status.runs, status.active)
         IN  IF picked = <<>> THEN "no queued run"
             ELSE LET snakefile_name == RunOf(status, picked[1]).snakefile
                  IN  IF snakefile_name = "" THEN "snakefile missing"
                      ELSE IF snakefile_name \notin FilesInJobDir
                      THEN "snakefile not found"
                      ELSE ""

\* A mutant: the run is not marked RUNNING before the engine starts.
MarkRunningLate(status, run_id) ==
    [status EXCEPT !.active = <<IntOf(run_id)>>]

\* The RUNNING mark handle_job puts on the selected run before it starts the engine.
MarkRunning(status, run_id) ==
    LET i == RunIndex(status, run_id)
    IN  [status EXCEPT
            !.active = <<IntOf(run_id)>>,
            !.runs[i].state = "RUNNING",
            !.runs[i].started = now_ts,
            !.runs[i].log = LogName(run_id),
            !.runs[i].slurm = <<SlurmRecord(<<>>, "")>>]

\* status["runs"].setdefault(str(run_id), {}): a run the document lacks is added
\* as an empty dict, every field of it unset.
EnsureRun(status, run_id) ==
    IF HasRun(status, run_id) THEN status
    ELSE [status EXCEPT !.runs = Append(@,
             [rid |-> run_id, state |-> "", snakefile |-> "", started |-> "",
              finished |-> "", log |-> <<>>, slurm |-> <<>>, exit_code |-> <<>>])]

\* A mutant: the monitor loop sets active_run_id to the run it executes.
MonitorMergeSetsActive(status, run_id, job_ids_set) ==
    LET st == EnsureRun(status, run_id)
        i == RunIndex(st, run_id)
    IN  [st EXCEPT !.runs[i].slurm = <<SlurmRecord(SortSet(job_ids_set), now_ts)>>,
                   !.active = <<IntOf(run_id)>>]

\* The monitor loop's update of the freshly loaded document.
MonitorMerge(status, run_id, job_ids_set) ==
    LET st == EnsureRun(status, run_id)
        i == RunIndex(st, run_id)
    IN  [st EXCEPT !.runs[i].slurm = <<SlurmRecord(SortSet(job_ids_set), now_ts)>>]

\* A mutant: a failed engine leaves the run's state as it was.
FinalStateStale(exit_code) == IF exit_code = 0 THEN "FINISHED" ELSE "RUNNING"

\* A mutant: any exit code below 2 counts as success.
FinalStateLenient(exit_code) == IF exit_code <= 1 THEN "FINISHED" ELSE "FAILED"

FinalState(exit_code) == IF exit_code = 0 THEN "FINISHED" ELSE "FAILED"

\* A mutant: the finalization keeps the run's slurm record empty instead of storing
\* the result of the last scrape.
FinalizeDropsIds(status, run_id, exit_code, job_ids) ==
    LET i == RunIndex(status, run_id)
    IN  [status EXCEPT
            !.runs[i].state = FinalState(exit_code),
            !.runs[i].finished = now_ts,
            !.runs[i].exit_code = <<exit_code>>,
            !.runs[i].slurm = <<SlurmRecord(<<>>, now_ts)>>]

\* The finalization of the freshly loaded document after the engine exited.
Finalize(status, run_id, exit_code, job_ids) ==
    LET i == RunIndex(status, run_id)
    IN  [status EXCEPT
            !.runs[i].state = FinalState(exit_code),
            !.runs[i].finished = now_ts,
            !.runs[i].exit_code = <<exit_code>>,
            !.runs[i].slurm = <<SlurmRecord(job_ids, now_ts)>>]

(***************************************************************************)
(* The run daemon: main_loop and handle_job, one action per step between   *)
(* two accesses to the status file, the log or the engine process.         *)
(***************************************************************************)
NoCall == [fn |-> "none"]

Perms(S) ==
    {p \in [1..Cardinality(S) -> S] : \A i, k \in 1..Cardinality(S) : p[i] = p[k] => i = k}

DaemonInit(JobSet) ==
    /\ disk \in [JobSet -> {InitDoc(jd, a, sf) :
                    jd \in JobDirValues, a \in {<<>>, <<1>>}, sf \in SnakefileValues}]
    /\ logs = [j \in JobSet |-> [n \in RunNumbers |-> <<>>]]
    /\ proc = <<>>
    /\ d_pc = "sleep"
    /\ d_todo = <<>>
    /\ d_job = ""
    /\ d_run = <<>>
    /\ d_status = <<>>
    /\ d_last_ids = {}
    /\ d_rc = <<>>
    /\ daemon_last = [j \in JobSet |-> <<>>]
    /\ spawns = [j \in JobSet |-> [n \in RunNumbers |-> 0]]
    /\ exited = [j \in JobSet |-> [n \in RunNumbers |-> <<>>]]
    /\ r_snap = [n |-> 0, held |-> <<>>]

\* A specification without the daemon keeps its variables at these values.
DaemonUnused ==
    /\ disk = <<>> /\ logs = <<>> /\ proc = <<>> /\ d_pc = "unused" /\ d_todo = <<>>
    /\ d_job = "" /\ d_run = <<>> /\ d_status = <<>> /\ d_last_ids = {} /\ d_rc = <<>>
    /\ daemon_last = <<>> /\ spawns = <<>> /\ exited = <<>>
    /\ r_snap = [n |-> 0, held |-> <<>>]

\* main_loop: after the sleep, list the watch directory (in any order).
MainLoopList ==
    /\ d_pc = "sleep"
    /\ \E order \in Perms(DOMAIN disk) : d_todo' = order
    /\ d_pc' = "iter"
    /\ UNCHANGED <<nonDaemonVars, disk, logs, proc, d_job, d_run, d_status, d_last_ids, d_rc,
                   daemon_last, spawns, exited, r_snap>>

\* main_loop: every job directory of the listing was handled; sleep.
MainLoopSleep ==
    /\ d_pc = "iter"
    /\ d_todo = <<>>
    /\ d_pc' = "sleep"
    /\ UNCHANGED <<nonDaemonVars, disk, logs, proc, d_todo, d_job, d_run, d_status, d_last_ids, d_rc,
                   daemon_last, spawns, exited, r_snap>>

\* A mutant: a rejected job's document is written back with active_run_id reset.
HandleJobRejectWrites ==
    /\ d_pc = "iter"
    /\ d_todo # <<>>
    /\ \/ disk[Head(d_todo)] = NoFile
       \/ Loads(disk[Head(d_todo)]) /\ RejectReason(disk[Head(d_todo)]) # ""
    /\ d_todo' = Tail(d_todo)
    /\ disk' = IF Loads(disk[Head(d_todo)])
               THEN [disk EXCEPT ![Head(d_todo)].active = IF @ = <<>> THEN <<1>> ELSE <<>>]
               ELSE disk
    /\ UNCHANGED <<nonDaemonVars, logs, proc, d_pc, d_job, d_run, d_status, d_last_ids, d_rc,
                   daemon_last, spawns, exited, r_snap>>

\* handle_job returns False (no status file, or one of the early returns): nothing
\* is written, the next directory follows.
HandleJobReject ==
    /\ d_pc = "iter"
    /\ d_todo # <<>>
    /\ \/ disk[Head(d_todo)] = NoFile
       \/ Loads(disk[Head(d_todo)]) /\ RejectReason(disk[Head(d_todo)]) # ""
    /\ d_todo' = Tail(d_todo)
    /\ UNCHANGED <<nonDaemonVars, disk, logs, proc, d_pc, d_job, d_run, d_status, d_last_ids, d_rc,
                   daemon_last, spawns, exited, r_snap>>

\* handle_job loads the document, selects a run and marks it RUNNING in memory.
HandleJobSelect ==
    /\ d_pc = "iter"
    /\ d_todo # <<>>
    /\ LET status == disk[Head(d_todo)]
       IN  /\ Loads(status)
           /\ RejectReason(status) = ""
           /\ LET run_id == pick_queued_run(status.runs, status.active)[1]
              IN  /\ d_job' = Head(d_todo)
                  /\ d_run' = run_id
                  /\ d_status' = <<MarkRunning(status, run_id)>>
    /\ d_pc' = "write_running"
    /\ UNCHANGED <<nonDaemonVars, disk, logs, proc, d_todo, d_last_ids, d_rc, daemon_last, spawns,
                   exited, r_snap>>

\* handle_job: the status file exists and json.load raises; neither handle_job nor
\* main_loop catches it, and the daemon process ends.
HandleJobRaises ==
    /\ d_pc = "iter"
    /\ d_todo # <<>>
    /\ disk[Head(d_todo)] = CorruptFile
    /\ d_pc' = "crashed"
    /\ UNCHANGED <<nonDaemonVars, disk, logs, proc, d_todo, d_job, d_run, d_status,
                   d_last_ids, d_rc, daemon_last, spawns, exited, r_snap>>

\* atomic_write_json(status_file, status) of a single writer: the file is replaced
\* by the whole document.
Persist ==
    /\ disk' = [disk EXCEPT ![d_job] = d_status[1]]
    /\ daemon_last' = [daemon_last EXCEPT ![d_job] = d_status]
    /\ d_status' = <<>>

\* handle_job persists the RUNNING mark.
WriteRunning ==
    /\ d_pc = "write_running"
    /\ Persist
    /\ d_pc' = "spawn"
    /\ UNCHANGED <<nonDaemonVars, logs, proc, d_todo, d_job, d_run, d_last_ids, d_rc, spawns, exited,
                   r_snap>>

Bump(n) == IF n < 2 THEN n + 1 ELSE n

\* ensure_profile and start_snakemake_with_plugin: the engine process starts.
SpawnEngine ==
    /\ d_pc = "spawn"
    /\ proc' = <<[job |-> d_job, run |-> d_run, rc |-> <<>>]>>
    /\ spawns' = [spawns EXCEPT ![d_job][IntOf(d_run)] = Bump(@)]
    /\ d_last_ids' = {}
    /\ d_pc' = "monitor"
    /\ UNCHANGED <<nonDaemonVars, disk, logs, d_todo, d_job, d_run, d_status, d_rc, daemon_last,
                   exited, r_snap>>

\* ensure_profile (os.makedirs, the write of config.yaml) or
\* start_snakemake_with_plugin (open of the run log, Popen) raises after the
\* RUNNING mark was persisted: nothing catches it, and the daemon process ends.
SpawnRaises ==
    /\ d_pc = "spawn"
    /\ d_pc' = "crashed"
    /\ UNCHANGED <<nonDaemonVars, disk, logs, proc, d_todo, d_job, d_run, d_status,
                   d_last_ids, d_rc, daemon_last, spawns, exited, r_snap>>

\* The daemon process is stopped while handle_job is in its monitor loop.
DaemonKill ==
    /\ d_pc \in {"monitor", "mon_sleep"}
    /\ d_pc' = "crashed"
    /\ UNCHANGED <<nonDaemonVars, disk, logs, proc, d_todo, d_job, d_run, d_status,
                   d_last_ids, d_rc, daemon_last, spawns, exited, r_snap>>

\* The daemon is started again: main_loop begins with nothing in memory; the
\* status files and logs are as the ended process left them, and the handle of
\* an engine process of the ended daemon is gone.
DaemonRestart ==
    /\ d_pc = "crashed"
    /\ d_pc' = "sleep"
    /\ d_todo' = <<>>
    /\ d_job' = ""
    /\ d_run' = <<>>
    /\ d_status' = <<>>
    /\ d_last_ids' = {}
    /\ d_rc' = <<>>
    /\ proc' = <<>>
    /\ UNCHANGED <<nonDaemonVars, disk, logs, daemon_last, spawns, exited, r_snap>>

\* A mutant: the monitor loop reloads and writes in every pass.
MonitorPollAlways(mayFail) ==
    /\ d_pc = "monitor"
    /\ \E readable \in (IF mayFail THEN BOOLEAN ELSE {TRUE}) :
          /\ d_rc' = proc[1].rc
          /\ d_last_ids' = Range(extract_slurm_job_ids_from_log(
                                     logs[d_job][IntOf(d_run)], readable))
          /\ d_pc' = "mon_load"
    /\ UNCHANGED <<nonDaemonVars, disk, logs, proc, d_todo, d_job, d_run, d_status, daemon_last,
                   spawns, exited, r_snap>>

\* One pass of the monitor loop up to the comparison with last_ids: proc.poll(),
\* the scrape, and then either the reload, the exit from the loop or the sleep.
MonitorPoll(mayFail) ==
    /\ d_pc = "monitor"
    /\ \E readable \in (IF mayFail THEN BOOLEAN ELSE {TRUE}) :
          LET rc == proc[1].rc
              job_ids == extract_slurm_job_ids_from_log(
                             logs[d_job][IntOf(d_run)], readable)
              job_ids_set == Range(job_ids)
          IN  /\ d_rc' = rc
              /\ d_last_ids' = job_ids_set
              /\ d_pc' = IF job_ids_set # d_last_ids THEN "mon_load"
                         ELSE IF rc # <<>> THEN "final_load"
                         ELSE "mon_sleep"
    /\ UNCHANGED <<nonDaemonVars, disk, logs, proc, d_todo, d_job, d_run, d_status, daemon_last,
                   spawns, exited, r_snap>>

\* A mutant: the monitor loop merges the slurm record into the document the daemon
\* wrote last instead of reloading the file.
MonitorLoadInMemory ==
    /\ d_pc = "mon_load"
    /\ Loads(disk[d_job])
    /\ d_status' = <<MonitorMerge(daemon_last[d_job][1], d_run, d_last_ids)>>
    /\ d_pc' = "mon_write"
    /\ UNCHANGED <<nonDaemonVars, disk, logs, proc, d_todo, d_job, d_run, d_last_ids, d_rc,
                   daemon_last, spawns, exited, r_snap>>

\* The monitor loop reloads the document and merges the slurm record into it.
MonitorLoad ==
    /\ d_pc = "mon_load"
    /\ Loads(disk[d_job])
    /\ d_status' = <<MonitorMerge(disk[d_job], d_run, d_last_ids)>>
    /\ d_pc' = "mon_write"
    /\ UNCHANGED <<nonDaemonVars, disk, logs, proc, d_todo, d_job, d_run, d_last_ids, d_rc,
                   daemon_last, spawns, exited, r_snap>>

\* The monitor loop's reload raises (the file is gone or is not JSON): the daemon
\* process ends.
MonitorLoadRaises ==
    /\ d_pc = "mon_load"
    /\ ~Loads(disk[d_job])
    /\ d_pc' = "crashed"
    /\ UNCHANGED <<nonDaemonVars, disk, logs, proc, d_todo, d_job, d_run, d_status,
                   d_last_ids, d_rc, daemon_last, spawns, exited, r_snap>>

\* The monitor loop persists the merged document, then leaves the loop or sleeps.
MonitorWrite ==
    /\ d_pc = "mon_write"
    /\ Persist
    /\ d_pc' = IF d_rc # <<>> THEN "final_load" ELSE "mon_sleep"
    /\ UNCHANGED <<nonDaemonVars, logs, proc, d_todo, d_job, d_run, d_last_ids, d_rc, spawns, exited,
                   r_snap>>

\* time.sleep(SLURM_ID_POLL_INTERVAL) ends and the next pass of the loop begins.
MonitorSleep ==
    /\ d_pc = "mon_sleep"
    /\ d_pc' = "monitor"
    /\ UNCHANGED <<nonDaemonVars, disk, logs, proc, d_todo, d_job, d_run, d_status,
                   d_last_ids, d_rc, daemon_last, spawns, exited, r_snap>>

\* After the loop: reload, set the final state, scrape the log a last time.
FinalLoad(mayFail) ==
    /\ d_pc = "final_load"
    /\ Loads(disk[d_job])
    /\ HasRun(disk[d_job], d_run)
    /\ \E readable \in (IF mayFail THEN BOOLEAN ELSE {TRUE}) :
          d_status' = <<Finalize(disk[d_job], d_run, d_rc[1],
                           extract_slurm_job_ids_from_log(
                               logs[d_job][IntOf(d_run)], readable))>>
    /\ d_pc' = "final_write"
    /\ UNCHANGED <<nonDaemonVars, disk, logs, proc, d_todo, d_job, d_run, d_last_ids, d_rc,
                   daemon_last, spawns, exited, r_snap>>

\* After the loop the reload raises, or the reloaded document lacks the run and
\* status["runs"][str(run_id)] raises KeyError: nothing catches it, and the daemon
\* process ends.
FinalLoadRaises ==
    /\ d_pc = "final_load"
    /\ ~Loads(disk[d_job]) \/ ~HasRun(disk[d_job], d_run)
    /\ d_pc' = "crashed"
    /\ UNCHANGED <<nonDaemonVars, disk, logs, proc, d_todo, d_job, d_run, d_status,
                   d_last_ids, d_rc, daemon_last, spawns, exited, r_snap>>

\* handle_job persists the final document and returns True.
FinalWrite ==
    /\ d_pc = "final_write"
    /\ Persist
    /\ proc' = <<>>
    /\ d_job' = ""
    /\ d_run' = <<>>
    /\ d_last_ids' = {}
    /\ d_rc' = <<>>
    /\ d_todo' = Tail(d_todo)
    /\ d_pc' = "iter"
    /\ UNCHANGED <<nonDaemonVars, logs, spawns, exited, r_snap>>

(***************************************************************************)
(* The engine process, and the external actions on the status file.        *)
(***************************************************************************)
EngineAlive == proc # <<>> /\ proc[1].rc = <<>>

\* The engine announces a cluster job id it has not announced yet in its log (one
\* announcement a line).
EngineAnnounce(id) ==
    /\ EngineAlive
    /\ LET j == proc[1].job
           n == IntOf(proc[1].run)
       IN  /\ id \notin ScanLines(logs[j][n])
           /\ logs' = [logs EXCEPT ![j][n] =
                          Append(@, [plugin |-> <<id>>, sbatch |-> <<>>])]
    /\ UNCHANGED <<nonDaemonVars, disk, proc, d_pc, d_todo, d_job, d_run, d_status, d_last_ids, d_rc,
                   daemon_last, spawns, exited, r_snap>>

\* The engine process exits with a code.
EngineExit(code) ==
    /\ EngineAlive
    /\ proc' = <<[proc[1] EXCEPT !.rc = <<code>>]>>
    /\ exited' = [exited EXCEPT ![proc[1].job][IntOf(proc[1].run)] = <<code>>]
    /\ UNCHANGED <<nonDaemonVars, disk, logs, d_pc, d_todo, d_job, d_run, d_status, d_last_ids, d_rc,
                   daemon_last, spawns, r_snap>>

\* The external "start" action: a further run, QUEUED, under the next run id.
Enqueue(j, snakefile, activate) ==
    /\ Len(disk[j].runs) < MaxRuns
    /\ LET n == Len(disk[j].runs) + 1
       IN  disk' = [disk EXCEPT
                       ![j].runs = Append(@, QueuedRun(StrOf(n), snakefile)),
                       ![j].active = IF activate THEN <<n>> ELSE @]
    /\ UNCHANGED <<nonDaemonVars, logs, proc, d_pc, d_todo, d_job, d_run, d_status, d_last_ids, d_rc,
                   daemon_last, spawns, exited, r_snap>>

\* The external status refresh: read the document ...
RefreshRead(j) ==
    /\ r_snap.held = <<>>
    /\ r_snap.n < MaxRefresh
    /\ r_snap' = [n |-> r_snap.n + 1, held |-> <<[job |-> j, doc |-> disk[j]]>>]
    /\ UNCHANGED <<nonDaemonVars, disk, logs, proc, d_pc, d_todo, d_job, d_run, d_status, d_last_ids,
                   d_rc, daemon_last, spawns, exited>>

\* ... and replace the file by it with the workspace state merged in.
RefreshWrite(ws) ==
    /\ r_snap.held # <<>>
    /\ disk' = [disk EXCEPT ![r_snap.held[1].job] = [r_snap.held[1].doc EXCEPT !.ws = ws]]
    /\ r_snap' = [r_snap EXCEPT !.held = <<>>]
    /\ UNCHANGED <<nonDaemonVars, logs, proc, d_pc, d_todo, d_job, d_run, d_status, d_last_ids, d_rc,
                   daemon_last, spawns, exited>>

\* A fault of one job's status file: its content is damaged ...
StatusFileCorrupt(j) ==
    /\ Loads(disk[j])
    /\ disk' = [disk EXCEPT ![j] = CorruptFile]
    /\ UNCHANGED <<nonDaemonVars, logs, proc, d_pc, d_todo, d_job, d_run, d_status,
                   d_last_ids, d_rc, daemon_last, spawns, exited, r_snap>>

\* ... or the file is removed.
StatusFileRemove(j) ==
    /\ Loads(disk[j])
    /\ disk' = [disk EXCEPT ![j] = NoFile]
    /\ UNCHANGED <<nonDaemonVars, logs, proc, d_pc, d_todo, d_job, d_run, d_status,
                   d_last_ids, d_rc, daemon_last, spawns, exited, r_snap>>

FsUnused ==
    /\ inodes = <<>> /\ dirent = <<>> /\ writers = <<>> /\ observed = <<>>

\* A specification without the agent keeps its variables at these values.
AgentUnused ==
    /\ a_pc = "unused" /\ a_job = <<>> /\ a_ret = <<>> /\ a_result = <<>> /\ a_log = <<>>

\* A specification without the CLI keeps its variables at these values.
CliUnused ==
    /\ c_pc = "unused" /\ c_cmd = <<>> /\ c_polls = 0 /\ c_status = <<>>
    /\ c_end = "" /\ c_files = {} /\ c_log = <<>>

(***************************************************************************)
(* atomic_write_json at the level of the file system: open(tmp, "w")       *)
(* creates or truncates the file named <path>.tmp, json.dump writes the     *)
(* document through the open file in chunks, os.replace renames.           *)
(***************************************************************************)
Writers == {"w1", "w2"}
\* The documents written, and the number of chunks each is written in.
DocChunks == [A |-> 2, B |-> 1, Old |-> 2]
WrittenDocs == {"A", "B"}

Chunks(d) == [i \in 1..DocChunks[d] |-> [doc |-> d, part |-> i]]

Hole == [doc |-> "", part |-> 0]

\* write(2) of one chunk at a chunk offset of a file; a gap reads as zeroes.
RECURSIVE WriteAt(_, _, _)
WriteAt(content, off, chunk) ==
    IF off < Len(content) THEN [content EXCEPT ![off + 1] = chunk]
    ELSE IF off = Len(content) THEN Append(content, chunk)
    ELSE WriteAt(Append(content, Hole), off, chunk)

\* json.load succeeds and yields a document that was saved.
IsComplete(content) == \E d \in DOMAIN DocChunks : content = Chunks(d)

FsInit ==
    /\ inodes = <<Chunks("Old")>>
    /\ dirent = [path |-> <<1>>, tmp |-> <<>>]
    /\ writers = [w \in Writers |-> [pc |-> "idle", doc |-> "", fd |-> 0, off |-> 0]]
    /\ observed = <<>>

\* tmp_path = path + ".tmp"; open(tmp_path, "w")
WriterOpen(w, d) ==
    /\ writers[w].pc = "idle"
    /\ IF dirent.tmp = <<>>
       THEN /\ inodes' = Append(inodes, <<>>)
            /\ dirent' = [dirent EXCEPT !.tmp = <<Len(inodes) + 1>>]
            /\ writers' = [writers EXCEPT ![w] =
                   [pc |-> "dump", doc |-> d, fd |-> Len(inodes) + 1, off |-> 0]]
       ELSE /\ inodes' = [inodes EXCEPT ![dirent.tmp[1]] = <<>>]
            /\ dirent' = dirent
            /\ writers' = [writers EXCEPT ![w] =
                   [pc |-> "dump", doc |-> d, fd |-> dirent.tmp[1], off |-> 0]]
    /\ UNCHANGED <<nonFsVars, observed>>

\* json.dump(obj, f): the next chunk reaches the file; the last one with close().
WriterDump(w) ==
    /\ writers[w].pc = "dump"
    /\ LET me == writers[w]
       IN  /\ inodes' = [inodes EXCEPT ![me.fd] =
                           WriteAt(@, me.off, Chunks(me.doc)[me.off + 1])]
           /\ writers' = [writers EXCEPT
                   ![w].off = me.off + 1,
                   ![w].pc = IF me.off + 1 = DocChunks[me.doc] THEN "replace" ELSE "dump"]
    /\ UNCHANGED <<nonFsVars, dirent, observed>>

\* os.replace(tmp_path, path); FileNotFoundError when the name is gone.
WriterReplace(w) ==
    /\ writers[w].pc = "replace"
    /\ IF dirent.tmp = <<>>
       THEN /\ writers' = [writers EXCEPT ![w].pc = "raised"]
            /\ dirent' = dirent
       ELSE /\ writers' = [writers EXCEPT ![w].pc = "done"]
            /\ dirent' = [path |-> dirent.tmp, tmp |-> <<>>]
    /\ UNCHANGED <<nonFsVars, inodes, observed>>

\* A reader: open(status_file) and json.load(f).
ReaderLoad ==
    /\ observed' = <<inodes[dirent.path[1]]>>
    /\ UNCHANGED <<nonFsVars, inodes, dirent, writers>>

(***************************************************************************)
(* The HPCSerA agent (agent.py): one invocation of main_loop.  The text    *)
(* of a subprocess's stdout is a sequence of characters.                   *)
(***************************************************************************)
K_State == <<"S", "t", "a", "t", "e">>
K_PENDING == <<"P", "E", "N", "D", "I", "N", "G">>
K_RUNNING == <<"R", "U", "N", "N", "I", "N", "G">>
K_CANCELLED == <<"C", "A", "N", "C", "E", "L", "L", "E", "D">>
K_FAILED == <<"F", "A", "I", "L", "E", "D">>
K_COMPLETED == <<"C", "O", "M", "P", "L", "E", "T", "E", "D">>
K_Submitted == <<"S", "u", "b", "m", "i", "t", "t", "e", "d", " ", "b", "a", "t", "c", "h", " ", "j", "o", "b">>

\* sub in s
Contains(s, sub) ==
    \E i \in 0..(Len(s) - Len(sub)) : SubSeq(s, i + 1, i + Len(sub)) = sub

\* s.startswith(prefix)
StartsWith(s, prefix) ==
    Len(s) >= Len(prefix) /\ SubSeq(s, 1, Len(prefix)) = prefix

\* s.replace(old, ""): the occurrences of old are removed, left to right.
RECURSIVE Remove(_, _)
Remove(s, old) ==
    IF Len(s) < Len(old) THEN s
    ELSE IF StartsWith(s, old) THEN Remove(SubSeq(s, Len(old) + 1, Len(s)), old)
    ELSE <<Head(s)>> \o Remove(Tail(s), old)

\* s.rstrip("\n")
RECURSIVE RStripNewlines(_)
RStripNewlines(s) ==
    IF s # <<>> /\ s[Len(s)] = "\n" THEN RStripNewlines(SubSeq(s, 1, Len(s) - 1))
    ELSE s

\* s.isnumeric(), for the characters of the model
IsNumeric(s) == s # <<>> /\ \A i \in 1..Len(s) : IsDigit(s[i])

\* An entry of the invocation's history: a request (GET, PUT) or a subprocess (exec).
Event(op, arg) == [op |-> op, arg |-> arg, state |-> "", slurm_id |-> <<>>, rows |-> <<>>]

\* requests.put(..., json={"state": state, "slurm_id": slurm_id})
PutState(state, slurm_id) ==
    [op |-> "PUT", arg |-> "state", state |-> state, slurm_id |-> slurm_id,
     rows |-> <<>>]

\* control_slurm_job_state: ret after the newlines and the header are removed.
AccountingText(stdout) == Remove(Remove(stdout, <<"\n">>), K_State)

\* A mutant: only PENDING counts as still in flight.
StillInFlightPendingOnly(ret) == Contains(ret, K_PENDING)

\* 'PENDING' in ret or 'RUNNING' in ret
StillInFlight(ret) == Contains(ret, K_PENDING) \/ Contains(ret, K_RUNNING)

\* The states control_slurm_job_state reports for a terminal text, in order.
ProberReports(ret) ==
    (IF Contains(ret, K_CANCELLED) THEN <<"CANCELLED">> ELSE <<>>)
    \o (IF Contains(ret, K_FAILED) THEN <<"FAILED">> ELSE <<>>)
    \o (IF Len(Remove(ret, K_COMPLETED)) = 0 THEN <<"COMPLETED">> ELSE <<"ProbFAILED">>)

\* A mutant: a job with a recorded slurm_id is executed like a fresh one.
AfterFetchReexecute(job) ==
    IF job.kind = "Bad_request" THEN "returned"
    ELSE IF job.kind = "type" THEN "exited"
    ELSE IF job.kind = "detail" THEN "raised"
    ELSE "execute"

\* A mutant: the test for the "type" key is left out.
AfterFetchNoTypeTest(job) ==
    IF job.kind = "Bad_request" THEN "returned"
    ELSE IF job.kind = "detail" THEN "raised"
    ELSE IF job.slurm_id # <<>> THEN "probe"
    ELSE "execute"

\* main_loop after look_for_new_job: return, exit(), KeyError at job['slurm_id'],
\* probe the cluster state or execute the job's script.
AfterFetch(job) ==
    IF job.kind = "Bad_request" THEN "returned"
    ELSE IF job.kind = "type" THEN "exited"
    ELSE IF job.kind = "detail" THEN "raised"
    ELSE IF job.slurm_id # <<>> THEN "probe"
    ELSE "execute"

\* The responses of look_for_new_job: no work, an error document with a "type"
\* key, a document with neither that key nor "slurm_id" (only "detail"), a fresh
\* job, a job with a recorded slurm_id.
AgentJobs ==
    {[kind |-> "Bad_request", function_id |-> 0, slurm_id |-> <<>>],
     [kind |-> "type", function_id |-> 0, slurm_id |-> <<>>],
     [kind |-> "detail", function_id |-> 0, slurm_id |-> <<>>],
     [kind |-> "job", function_id |-> 7, slurm_id |-> <<>>],
     [kind |-> "job", function_id |-> 7, slurm_id |-> <<500>>]}

\* The State column of sacct, a row for the job and each of its steps: the text of
\* a row and the state it names.
SacctRows ==
    {[txt |-> K_PENDING, names |-> "PENDING"],
     [txt |-> K_RUNNING, names |-> "RUNNING"],
     [txt |-> K_COMPLETED, names |-> "COMPLETED"],
     [txt |-> K_CANCELLED, names |-> "CANCELLED"],
     [txt |-> <<"C", "A", "N", "C", "E", "L", "L", "E", "D", " ", "b", "y", " ", "7">>, names |-> "CANCELLED"],
     [txt |-> K_FAILED, names |-> "FAILED"],
     [txt |-> <<"T", "I", "M", "E", "O", "U", "T">>, names |-> "TIMEOUT"]}

\* The stdout of sacct --format=State --parsable2: the header line and the rows.
RECURSIVE SacctStdout(_)
SacctStdout(rows) ==
    IF rows = <<>> THEN K_State \o <<"\n">>
    ELSE SacctStdout(SubSeq(rows, 1, Len(rows) - 1)) \o rows[Len(rows)].txt \o <<"\n">>

\* The stdout of the job's script.
ScriptOutputs ==
    {<<"7", "7", "5", "3", "1", "\n">>,
     <<"S", "u", "b", "m", "i", "t", "t", "e", "d", " ", "b", "a", "t", "c", "h", " ", "j", "o", "b", " ", "7", "7", "5", "3", "1", "\n">>,
     <<"S", "u", "b", "m", "i", "t", "t", "e", "d", " ", "b", "a", "t", "c", "h", " ", "j", "o", "b", " ", "7", "7", "5", "3", "1", " ", "o", "n", " ", "c", "l", "u", "s", "t", "e", "r", " ", "h", "p", "c", "\n">>,
     <<"d", "o", "n", "e", "\n">>,
     <<>>}

AgentInit ==
    /\ a_pc = "start" /\ a_job = <<>> /\ a_ret = <<>> /\ a_result = <<>> /\ a_log = <<>>

\* A mutant: the checksum is computed but not reported.
AgentChecksumNoReport(pending) ==
    /\ a_pc = "start"
    /\ a_log' = a_log \o <<Event("GET", "checksum")>>
                  \o (IF pending THEN <<Event("exec", "hash.sh")>> ELSE <<>>)
    /\ a_pc' = "fetch"
    /\ UNCHANGED <<call, daemonVars, fsVars, serverVars, cliVars, a_job, a_ret, a_result>>

\* main_loop, the checksum draft: get_job_for_checksum_update, and for a job
\* calculate_checksum (hash.sh) and update_checksum.
AgentChecksum(pending) ==
    /\ a_pc = "start"
    /\ a_log' = a_log \o <<Event("GET", "checksum")>>
                  \o (IF pending THEN <<Event("exec", "hash.sh"), Event("PUT", "checksum")>>
                      ELSE <<>>)
    /\ a_pc' = "fetch"
    /\ UNCHANGED <<call, daemonVars, fsVars, serverVars, cliVars, a_job, a_ret, a_result>>

\* The checksum response has no "Bad_request" key and is no checksum unit either
\* (an error document): job['args'] in calculate_checksum raises KeyError, and the
\* invocation ends before hash.sh runs.
AgentChecksumRaises ==
    /\ a_pc = "start"
    /\ a_log' = Append(a_log, Event("GET", "checksum"))
    /\ a_pc' = "raised"
    /\ UNCHANGED <<call, daemonVars, fsVars, serverVars, cliVars, a_job, a_ret, a_result>>

\* main_loop: look_for_new_job and the tests of its response.
AgentFetch(job) ==
    /\ a_pc = "fetch"
    /\ a_job' = <<job>>
    /\ a_log' = Append(a_log, Event("GET", "job"))
    /\ a_pc' = AfterFetch(job)
    /\ UNCHANGED <<call, daemonVars, fsVars, serverVars, cliVars, a_ret, a_result>>

\* control_slurm_job_state: sacct runs (a sacct that fails prints nothing), its
\* text is tested for PENDING and RUNNING; for these the function returns and
\* main_loop calls exit().
AgentProbe(rows, fails) ==
    /\ a_pc = "probe"
    /\ fails => rows = <<>>
    /\ LET stdout == IF fails THEN <<>> ELSE SacctStdout(rows)
           ret == AccountingText(stdout)
       IN  /\ a_ret' = ret
           /\ a_pc' = IF StillInFlight(ret) THEN "exited" ELSE "hook"
    /\ a_log' = Append(a_log, [Event("exec", "sacct") EXCEPT
                                  !.rows = [i \in 1..Len(rows) |-> rows[i].names]])
    /\ UNCHANGED <<call, daemonVars, fsVars, serverVars, cliVars, a_job, a_result>>

\* os.path.exists(post_command) and its answer.
HookExists(present) ==
    [Event("exists", "post_slurm.sh") EXCEPT !.state = IF present THEN "True" ELSE "False"]

\* A mutant: the hook is run a second time.
AgentHookTwice(present) ==
    /\ a_pc = "hook"
    /\ a_log' = a_log \o <<HookExists(present)>>
                  \o (IF present
                      THEN <<Event("exec", "post_slurm.sh"), Event("exec", "post_slurm.sh")>>
                      ELSE <<>>)
    /\ a_pc' = "report"
    /\ UNCHANGED <<call, daemonVars, fsVars, serverVars, cliVars, a_job, a_ret, a_result>>

\* run_post_slurm_command: the hook runs if the file exists.
AgentHook(present) ==
    /\ a_pc = "hook"
    /\ a_log' = a_log \o <<HookExists(present)>>
                  \o (IF present THEN <<Event("exec", "post_slurm.sh")>> ELSE <<>>)
    /\ a_pc' = "report"
    /\ UNCHANGED <<call, daemonVars, fsVars, serverVars, cliVars, a_job, a_ret, a_result>>

\* control_slurm_job_state: the reports of a terminal text; main_loop calls exit().
AgentReport ==
    /\ a_pc = "report"
    /\ a_log' = a_log \o [i \in 1..Len(ProberReports(a_ret)) |->
                            PutState(ProberReports(a_ret)[i], a_job[1].slurm_id)]
    /\ a_pc' = "exited"
    /\ UNCHANGED <<call, daemonVars, fsVars, serverVars, cliVars, a_job, a_ret, a_result>>

\* The return codes of the job's script.
ScriptReturnCodes == {0, 1}

\* execute_function: the job's script runs; subprocess.run gives its return code and
\* its captured stdout.
AgentExecute(stdout, returncode) ==
    /\ a_pc = "execute"
    /\ a_result' = [stdout |-> stdout, returncode |-> returncode]
    /\ a_log' = Append(a_log, Event("exec", "script"))
    /\ a_pc' = "classify"
    /\ UNCHANGED <<call, daemonVars, fsVars, serverVars, cliVars, a_job, a_ret>>

\* main_loop: isBatchJob, and the report of BatchJobRunning with the slurm id
\* (exit()) or of FINISHED; int(slurm_id) may raise ValueError.
AgentClassify ==
    /\ a_pc = "classify"
    /\ LET stripped == RStripNewlines(a_result.stdout)
           isBatchJob == IsNumeric(stripped) \/ StartsWith(a_result.stdout, K_Submitted)
           slurm_id == IF StartsWith(a_result.stdout, K_Submitted)
                       THEN SubSeq(stripped, 21, Len(stripped))
                       ELSE stripped
       IN  IF ~isBatchJob
           THEN /\ a_log' = Append(a_log, PutState("FINISHED", <<>>))
                /\ a_pc' = "returned"
           ELSE IF IntOk(slurm_id)
           THEN /\ a_log' = Append(a_log, PutState("BatchJobRunning", <<IntOf(slurm_id)>>))
                /\ a_pc' = "exited"
           ELSE /\ a_log' = a_log
                /\ a_pc' = "raised"
    /\ UNCHANGED <<call, daemonVars, fsVars, serverVars, cliVars, a_job, a_ret, a_result>>

(***************************************************************************)
(* The API server's file-management routes on one job folder.              *)
(***************************************************************************)
N_status == <<"s", "t", "a", "t", "u", "s", ".", "j", "s", "o", "n">>
N_snakemake_log == <<"s", "n", "a", "k", "e", "m", "a", "k", "e", ".", "l", "o", "g">>
N_slurm_log == <<"s", "l", "u", "r", "m", ".", "l", "o", "g">>
N_wf == <<"w", "f", ".", "s", "m", "k">>
N_run_log == <<"s", "n", "a", "k", "e", "m", "a", "k", "e", "_", "r", "u", "n", "1", ".", "l", "o", "g">>
N_escape == <<".", ".", "/", "x">>

\* The names a file of the job folder can have.
FileNames == {N_status, N_snakemake_log, N_slurm_log, N_wf, N_run_log}

\* reserved of upload_file
reserved == {N_status, N_snakemake_log, N_slurm_log}

LowerChar(c) ==
    CASE c = "T" -> "t" [] c = "R" -> "r" [] c = "U" -> "u" [] c = "E" -> "e"
      [] c = "F" -> "f" [] c = "A" -> "a" [] c = "L" -> "l" [] c = "S" -> "s"
      [] OTHER -> c

\* str.lower()
Lower(s) == [i \in 1..Len(s) |-> LowerChar(s[i])]

\* request.form.get("system_upload", "false").lower() == "true"; an absent field
\* is the empty tuple.
IsSystemUpload(form_value) ==
    Lower(IF form_value = <<>> THEN <<"f", "a", "l", "s", "e">> ELSE form_value[1]) = <<"t", "r", "u", "e">>

is_safe_filename(file_name) ==
    /\ ~Contains(file_name, <<"/">>)
    /\ ~Contains(file_name, <<"\\">>)
    /\ ~Contains(file_name, <<".", ".">>)

is_safe_function_id(function_id) ==
    /\ ~Contains(function_id, <<"/">>)
    /\ ~Contains(function_id, <<"\\">>)
    /\ ~Contains(function_id, <<".", ".">>)

\* A relative path leaves the directory it starts in (no symbolic links).
RECURSIVE Escapes(_, _)
Escapes(segments, depth) ==
    IF segments = <<>> THEN FALSE
    ELSE IF Head(segments) = <<".", ".">>
    THEN depth = 0 \/ Escapes(Tail(segments), depth - 1)
    ELSE IF Head(segments) \in {<<>>, <<".">>} THEN Escapes(Tail(segments), depth)
    ELSE Escapes(Tail(segments), depth + 1)

\* is_safe_job_dir(os.path.join(UPLOAD_FOLDER, function_id)): the real path is
\* UPLOAD_FOLDER or lies below it.
is_safe_job_dir(function_id) == ~Escapes(Split(function_id, "/"), 0)

NoFiles == [n \in FileNames |-> <<>>]

Response(code, exists, files) == [code |-> code, exists |-> exists, files |-> files]

\* A mutant: the flag is not looked at, a reserved name is stored like any other.
upload_file_unreserved(req, exists, files) ==
    IF ~req.authed THEN Response(403, exists, files)
    ELSE IF ~is_safe_function_id(req.function_id) THEN Response(400, exists, files)
    ELSE IF ~req.has_file THEN Response(400, exists, files)
    ELSE IF ~is_safe_job_dir(req.function_id) THEN Response(400, exists, files)
    ELSE IF ~req.owned THEN Response(403, exists, files)
    ELSE IF req.function_name # "init" /\ ~exists THEN Response(400, exists, files)
    ELSE IF ~is_safe_filename(req.filename) THEN Response(400, TRUE, files)
    ELSE Response(200, TRUE, [files EXCEPT ![req.filename] = <<req.body>>])

\* upload_file: the response code and the job folder after the request.
upload_file(req, exists, files) ==
    IF ~req.authed THEN Response(403, exists, files)
    ELSE IF ~is_safe_function_id(req.function_id) THEN Response(400, exists, files)
    ELSE IF ~req.has_file THEN Response(400, exists, files)
    ELSE IF ~is_safe_job_dir(req.function_id) THEN Response(400, exists, files)
    ELSE IF ~req.owned THEN Response(403, exists, files)
    ELSE IF req.function_name # "init" /\ ~exists THEN Response(400, exists, files)
    ELSE IF req.filename \in reserved /\ ~IsSystemUpload(req.system_upload)
    THEN Response(400, TRUE, files)
    ELSE IF ~is_safe_filename(req.filename) THEN Response(400, TRUE, files)
    ELSE Response(200, TRUE, [files EXCEPT ![req.filename] = <<req.body>>])

\* list_job_files: the response code and the names listed.
list_job_files(req, exists, files) ==
    IF ~req.authed THEN [code |-> 403, files |-> {}]
    ELSE IF ~is_safe_function_id(req.function_id) THEN [code |-> 400, files |-> {}]
    ELSE IF ~is_safe_job_dir(req.function_id) THEN [code |-> 400, files |-> {}]
    ELSE IF ~req.owned \/ ~exists THEN [code |-> 404, files |-> {}]
    ELSE [code |-> 200, files |-> {n \in FileNames : files[n] # <<>>}]

\* get_file: the response code and the content sent.
get_file(req, exists, files) ==
    IF ~req.authed THEN [code |-> 403, body |-> <<>>]
    ELSE IF ~is_safe_function_id(req.function_id) THEN [code |-> 400, body |-> <<>>]
    ELSE IF ~is_safe_filename(req.filename) THEN [code |-> 400, body |-> <<>>]
    ELSE IF ~is_safe_job_dir(req.function_id) THEN [code |-> 400, body |-> <<>>]
    ELSE IF ~req.owned \/ ~exists \/ files[req.filename] = <<>>
    THEN [code |-> 404, body |-> <<>>]
    ELSE [code |-> 200, body |-> files[req.filename]]

\* delete_file: the response code and the job folder after the request; os.remove
\* may raise.
delete_file(req, exists, files) ==
    IF ~req.authed THEN Response(403, exists, files)
    ELSE IF ~is_safe_function_id(req.function_id) THEN Response(400, exists, files)
    ELSE IF ~is_safe_filename(req.filename) THEN Response(400, exists, files)
    ELSE IF ~is_safe_job_dir(req.function_id) THEN Response(400, exists, files)
    ELSE IF ~req.owned \/ ~exists \/ files[req.filename] = <<>>
    THEN Response(404, exists, files)
    ELSE IF req.remove_raises THEN Response(500, exists, files)
    ELSE Response(200, exists, [files EXCEPT ![req.filename] = <<>>])

\* delete_job: the response code and the job folder after the request;
\* shutil.rmtree may raise.
delete_job(req, exists, files) ==
    IF ~req.authed THEN Response(403, exists, files)
    ELSE IF ~is_safe_function_id(req.function_id) THEN Response(400, exists, files)
    ELSE IF ~is_safe_job_dir(req.function_id) THEN Response(400, exists, files)
    ELSE IF ~req.owned \/ ~exists THEN Response(404, exists, files)
    ELSE IF req.remove_raises THEN Response(500, exists, files)
    ELSE Response(200, FALSE, NoFiles)

\* The function ids, file names and system_upload form values of the requests.
FunctionIds == {<<"7">>, <<".", ".", "/", "7">>}
RequestNames == FileNames \cup {N_escape}
SystemUploadValues == {<<>>, <<<<"t", "r", "u", "e">>>>, <<<<"T", "r", "u", "e">>>>, <<<<"f", "a", "l", "s", "e">>>>}

UploadRequests ==
    [authed : BOOLEAN, function_id : FunctionIds, has_file : BOOLEAN,
     function_name : {"init", "upload"}, owned : BOOLEAN, filename : RequestNames,
     system_upload : SystemUploadValues, body : {"data"}]

DeleteRequests ==
    [authed : BOOLEAN, function_id : FunctionIds, owned : BOOLEAN,
     filename : RequestNames, remove_raises : BOOLEAN]

\* What the responses record of a request.
Responded(route, code, req) ==
    [route |-> route, code |-> code, filename |-> req.filename,
     system_upload |-> req.system_upload]

ServerInit ==
    /\ s_exists \in BOOLEAN
    /\ s_files = NoFiles
    /\ s_resp = [route |-> "none", code |-> 0, filename |-> <<>>, system_upload |-> <<>>]

\* A specification without the API server keeps its variables at these values.
ServerUnused == s_exists = FALSE /\ s_files = <<>> /\ s_resp = <<>>

\* POST .../functionid/<id>/upload
SrvUpload(req) ==
    /\ LET r == upload_file(req, s_exists, s_files)
       IN  /\ s_exists' = r.exists
           /\ s_files' = r.files
           /\ s_resp' = Responded("upload", r.code, req)
    /\ UNCHANGED <<call, daemonVars, fsVars, agentVars, cliVars>>

\* DELETE .../functionid/<id>/delete_file/<file_name>
SrvDeleteFile(req) ==
    /\ LET r == delete_file(req, s_exists, s_files)
       IN  /\ s_exists' = r.exists
           /\ s_files' = r.files
           /\ s_resp' = [route |-> "delete_file", code |-> r.code,
                         filename |-> req.filename, system_upload |-> <<>>]
    /\ UNCHANGED <<call, daemonVars, fsVars, agentVars, cliVars>>

\* DELETE .../functionid/<id>/delete_job
SrvDeleteJob(req) ==
    /\ LET r == delete_job(req, s_exists, s_files)
       IN  /\ s_exists' = r.exists
           /\ s_files' = r.files
           /\ s_resp' = [route |-> "delete_job", code |-> r.code, filename |-> <<>>,
                         system_upload |-> <<>>]
    /\ UNCHANGED <<call, daemonVars, fsVars, agentVars, cliVars>>

(***************************************************************************)
(* The command-line client (mcse): one command, one action per HTTP        *)
(* request, against the job folder of the API server.  A request is        *)
(* answered by the route ("ok"), answered with 500 before the route acts   *)
(* ("error"), or not answered at all ("down": requests raises).            *)
(***************************************************************************)
max_retries == 12

Net == {"ok", "error", "down"}

\* The content of a file of the job folder as the client reads it: whether
\* response.json() parses it, workspace.state ("none": missing or invalid),
\* the snakemake log name recorded for the chosen run, and (history) whether
\* it was uploaded after this command's status request.
Doc(ws, fresh, log, parses) == [ws |-> ws, fresh |-> fresh, log |-> log, parses |-> parses]

\* The content of a file that is not a status document.
OtherContent == Doc("none", FALSE, <<>>, FALSE)

\* The status.json found in the folder when the command starts.
StaleDocs == {Doc("ACTIVE", FALSE, <<N_run_log>>, TRUE), Doc("EXPIRED", FALSE, <<>>, TRUE)}

\* The status.json that the status function uploads.
FreshDocs ==
    {Doc(ws, TRUE, log, TRUE) : ws \in {"ACTIVE", "EXPIRED", "none"}, log \in {<<>>, <<N_run_log>>}}
        \cup {Doc("none", TRUE, <<>>, FALSE)}

\* The job folders a command can find.
Folders ==
    {[n \in FileNames |->
        IF n = N_status THEN st ELSE IF n = N_wf THEN wf ELSE IF n = N_run_log THEN lg ELSE <<>>] :
        st \in {<<>>} \cup {<<d>> : d \in StaleDocs},
        wf \in {<<>>, <<OtherContent>>}, lg \in {<<>>, <<OtherContent>>}}

\* The commands: mcse init, upload, start and status.
Commands ==
    {c \in [fn : {"init_job", "upload_file", "start_job", "check_status"},
            job_id : {<<>>, <<"7">>}, file_name : {N_wf, N_status},
            no_overwrite : BOOLEAN, valid : BOOLEAN, authed : BOOLEAN] :
        /\ c.job_id = <<>> => c.fn = "init_job"
        /\ c.fn # "init_job" => c.valid
        /\ c.fn \in {"start_job", "check_status"} => c.file_name = N_wf /\ ~c.no_overwrite}

CliInit ==
    /\ c_cmd \in Commands
    /\ c_pc = "start" /\ c_polls = 0 /\ c_status = <<>> /\ c_end = "" /\ c_files = {}
    /\ c_log = [triggered |-> FALSE, lists |-> 0, sent |-> {}]
    /\ s_exists \in BOOLEAN
    /\ s_files \in Folders
    /\ ~s_exists => s_files = NoFiles
    /\ c_cmd.job_id = <<>> => ~s_exists
    /\ s_resp = [route |-> "none", code |-> 0, filename |-> <<>>, system_upload |-> <<>>]

\* The client's file-management request for a file of the job folder.
CliReq(name) ==
    [authed |-> c_cmd.authed, function_id |-> <<"7">>, owned |-> TRUE, filename |-> name]

\* response.status_code of a request that was answered.
Code(net, code) == IF net = "error" THEN 500 ELSE code

\* The command ends: it returns, or an exception leaves it.
End(how) == c_pc' = "done" /\ c_end' = how
Raise == c_pc' = "raised" /\ c_end' = "raised"

\* init_job, lines 45-60, upload_file, lines 152-158: validation and the
\* reserved names; then the command's first request.
CliEnter ==
    /\ c_pc = "start"
    /\ IF c_cmd.fn = "init_job" /\ ~c_cmd.valid THEN End("invalid")
       ELSE IF c_cmd.fn \in {"init_job", "upload_file"} /\ c_cmd.file_name \in reserved
       THEN End("reserved")
       ELSE /\ c_pc' = IF c_cmd.job_id = <<>> THEN "new_post"
                       ELSE IF c_cmd.fn = "check_status" THEN "del_list"
                       ELSE "pre_list"
            /\ c_end' = c_end
    /\ UNCHANGED <<call, daemonVars, fsVars, agentVars, serverVars, c_cmd, c_polls, c_status,
                   c_files, c_log>>

\* The command's own list_files request: the job exists, and file_list.
CliPreList(net) ==
    /\ c_pc = "pre_list"
    /\ LET r == list_job_files(CliReq(<<>>), s_exists, s_files)
       IN  IF net = "down" THEN Raise /\ c_files' = c_files
           ELSE IF Code(net, r.code) # 200 THEN End("no_job") /\ c_files' = c_files
           ELSE c_pc' = "del_list" /\ c_end' = c_end /\ c_files' = r.files
    /\ UNCHANGED <<call, daemonVars, fsVars, agentVars, serverVars, c_cmd, c_polls, c_status,
                   c_log>>

\* delete_status_file_on_api, lines 30-36
CliDelList(net) ==
    /\ c_pc = "del_list"
    /\ LET r == list_job_files(CliReq(<<>>), s_exists, s_files)
       IN  IF net = "down" THEN Raise
           ELSE /\ c_pc' = IF Code(net, r.code) = 200 /\ N_status \in r.files
                           THEN "del_delete" ELSE "trigger"
                /\ c_end' = c_end
    /\ UNCHANGED <<call, daemonVars, fsVars, agentVars, serverVars, c_cmd, c_polls, c_status,
                   c_files, c_log>>

\* delete_status_file_on_api, lines 37-41: a failure is only warned of.
CliDelDelete(net, remove_raises) ==
    /\ c_pc = "del_delete"
    /\ LET req == [authed |-> c_cmd.authed, function_id |-> <<"7">>, owned |-> TRUE,
                   filename |-> N_status, remove_raises |-> remove_raises]
           r == delete_file(req, s_exists, s_files)
       IN  IF net = "down" THEN Raise /\ UNCHANGED serverVars
           ELSE /\ c_pc' = "trigger" /\ c_end' = c_end
                /\ IF net = "error" THEN UNCHANGED serverVars
                   ELSE /\ s_exists' = r.exists
                        /\ s_files' = r.files
                        /\ s_resp' = [route |-> "delete_file", code |-> r.code,
                                      filename |-> N_status, system_upload |-> <<>>]
    /\ UNCHANGED <<call, daemonVars, fsVars, agentVars, c_cmd, c_polls, c_status, c_files, c_log>>

\* The status request to the async-function route; then the polling loop starts.
CliTrigger(net) ==
    /\ c_pc = "trigger"
    /\ IF net = "down" THEN Raise /\ UNCHANGED <<c_polls, c_log>>
       ELSE IF net = "error" THEN End("trigger_failed") /\ UNCHANGED <<c_polls, c_log>>
       ELSE /\ c_pc' = "poll" /\ c_end' = c_end
            /\ c_polls' = 0
            /\ c_log' = [c_log EXCEPT !.triggered = TRUE, !.lists = 0]
    /\ UNCHANGED <<call, daemonVars, fsVars, agentVars, serverVars, c_cmd, c_status, c_files>>

\* A mutant: the pass that does not find the file is not counted towards
\* max_retries.
CliPollForever(net) ==
    /\ c_pc = "poll"
    /\ c_polls < max_retries
    /\ LET r == list_job_files(CliReq(<<>>), s_exists, s_files)
       IN  IF net = "down" THEN Raise /\ UNCHANGED <<c_polls, c_log>>
           ELSE IF Code(net, r.code) # 200
           THEN End("list_failed") /\ c_polls' = c_polls + 1
                /\ c_log' = [c_log EXCEPT !.lists = @ + 1]
           ELSE IF N_status \notin r.files
           THEN /\ c_polls' = (c_polls + 1) % max_retries
                /\ c_log' = c_log
                /\ c_pc' = "poll" /\ c_end' = c_end
           ELSE /\ c_polls' = c_polls + 1
                /\ c_log' = [c_log EXCEPT !.lists = @ + 1]
                /\ c_pc' = "fetch" /\ c_end' = c_end
    /\ UNCHANGED <<call, daemonVars, fsVars, agentVars, serverVars, c_cmd, c_status, c_files>>

\* One pass of the loop that polls for status.json (status.py, lines 87-98;
\* commands.py, lines 295-305): the list request, and the sleep when the file
\* is not listed; after the last pass the loop is left.
CliPoll(net) ==
    /\ c_pc = "poll"
    /\ c_polls < max_retries
    /\ LET r == list_job_files(CliReq(<<>>), s_exists, s_files)
       IN  IF net = "down" THEN Raise /\ UNCHANGED <<c_polls, c_log>>
           ELSE /\ c_polls' = c_polls + 1
                /\ c_log' = [c_log EXCEPT !.lists = @ + 1]
                /\ IF Code(net, r.code) # 200 THEN End("list_failed")
                   ELSE IF N_status \notin r.files
                   THEN IF c_polls + 1 = max_retries THEN End("exhausted")
                        ELSE c_pc' = "poll" /\ c_end' = c_end
                   ELSE c_pc' = "fetch" /\ c_end' = c_end
    /\ UNCHANGED <<call, daemonVars, fsVars, agentVars, serverVars, c_cmd, c_status, c_files>>

\* What the caller does with the parsed status: ensure_workspace_active and the
\* --no-overwrite test (start_job, upload_file, init_job), or the log name of
\* the chosen run (check_status).
AfterStatus(doc) ==
    IF c_cmd.fn = "check_status"
    THEN IF doc.log = <<>> THEN "no_log_name" ELSE "log_poll"
    ELSE IF doc.ws # "ACTIVE" THEN "not_active"
    ELSE IF c_cmd.fn = "start_job" THEN "send_post"
    ELSE IF c_cmd.no_overwrite /\ c_cmd.file_name \in c_files THEN "exists"
    ELSE "send_upload"

\* The request for status.json and the parsing of the answer
\* (status.py, lines 100-110; commands.py, lines 307-318).
CliFetch(net) ==
    /\ c_pc = "fetch"
    /\ LET r == get_file(CliReq(N_status), s_exists, s_files)
       IN  IF net = "down" THEN Raise /\ UNCHANGED <<c_status, c_polls, c_log>>
           ELSE IF Code(net, r.code) # 200
           THEN End("fetch_failed") /\ UNCHANGED <<c_status, c_polls, c_log>>
           ELSE IF ~r.body[1].parses
           THEN /\ IF c_cmd.fn = "check_status" THEN Raise ELSE End("parse_failed")
                /\ UNCHANGED <<c_status, c_polls, c_log>>
           ELSE /\ c_status' = r.body
                /\ LET next == AfterStatus(r.body[1])
                   IN  IF next \in {"log_poll", "send_post", "send_upload"}
                       THEN c_pc' = next /\ c_end' = c_end
                       ELSE End(next)
                /\ c_polls' = 0
                /\ c_log' = [c_log EXCEPT !.lists = 0]
    /\ UNCHANGED <<call, daemonVars, fsVars, agentVars, serverVars, c_cmd, c_files>>

\* upload_file_to_server(job_id, file_path, function_name)
CliSendUpload(net) ==
    /\ c_pc = "send_upload"
    /\ c_log' = [c_log EXCEPT !.sent = @ \cup {"upload"}]
    /\ LET req == [authed |-> c_cmd.authed, function_id |-> <<"7">>, has_file |-> TRUE,
                   function_name |-> IF c_cmd.fn = "init_job" THEN "init" ELSE "upload",
                   owned |-> TRUE, filename |-> c_cmd.file_name, system_upload |-> <<>>,
                   body |-> OtherContent]
           r == upload_file(req, s_exists, s_files)
       IN  IF net = "down" THEN Raise /\ UNCHANGED serverVars
           ELSE IF net = "error" THEN End("upload_failed") /\ UNCHANGED serverVars
           ELSE /\ s_exists' = r.exists
                /\ s_files' = r.files
                /\ s_resp' = Responded("upload", r.code, req)
                /\ IF r.code = 200 THEN c_pc' = "send_post" /\ c_end' = c_end
                   ELSE End("upload_failed")
    /\ UNCHANGED <<call, daemonVars, fsVars, agentVars, c_cmd, c_polls, c_status, c_files>>

\* The init, upload or start request to the async-function route.
CliSendPost(net) ==
    /\ c_pc = "send_post"
    /\ c_log' = [c_log EXCEPT !.sent = @ \cup {"post"}]
    /\ IF net = "down" THEN Raise
       ELSE IF net = "error" THEN End("post_failed")
       ELSE End("sent")
    /\ UNCHANGED <<call, daemonVars, fsVars, agentVars, serverVars, c_cmd, c_polls, c_status,
                   c_files>>

\* One pass of check_status's loop that polls for the snakemake log.
CliLogPoll(net) ==
    /\ c_pc = "log_poll"
    /\ c_polls < max_retries
    /\ LET r == list_job_files(CliReq(<<>>), s_exists, s_files)
       IN  IF net = "down" THEN Raise /\ UNCHANGED <<c_polls, c_log>>
           ELSE /\ c_polls' = c_polls + 1
                /\ c_log' = [c_log EXCEPT !.lists = @ + 1]
                /\ IF Code(net, r.code) # 200 THEN End("log_list_failed")
                   ELSE IF c_status[1].log[1] \notin r.files
                   THEN IF c_polls + 1 = max_retries THEN End("log_exhausted")
                        ELSE c_pc' = "log_poll" /\ c_end' = c_end
                   ELSE c_pc' = "log_fetch" /\ c_end' = c_end
    /\ UNCHANGED <<call, daemonVars, fsVars, agentVars, serverVars, c_cmd, c_status, c_files>>

\* check_status, lines 360-369: the request for the log, which is printed.
CliLogFetch(net) ==
    /\ c_pc = "log_fetch"
    /\ LET r == get_file(CliReq(c_status[1].log[1]), s_exists, s_files)
       IN  IF net = "down" THEN Raise
           ELSE IF Code(net, r.code) # 200 THEN End("log_fetch_failed")
           ELSE End("printed")
    /\ UNCHANGED <<call, daemonVars, fsVars, agentVars, serverVars, c_cmd, c_polls, c_status,
                   c_files, c_log>>

\* init_job without a job id, lines 104-114: the init request for a new job.
CliNewPost(net) ==
    /\ c_pc = "new_post"
    /\ c_log' = [c_log EXCEPT !.sent = @ \cup {"post"}]
    /\ IF net = "down" THEN Raise
       ELSE IF net = "error" THEN End("post_failed")
       ELSE c_pc' = "new_upload" /\ c_end' = c_end
    /\ UNCHANGED <<call, daemonVars, fsVars, agentVars, serverVars, c_cmd, c_polls, c_status,
                   c_files>>

\* init_job without a job id, lines 116-125: the Snakefile goes to the folder of
\* the function id that the init request returned.
CliNewUpload(net) ==
    /\ c_pc = "new_upload"
    /\ c_log' = [c_log EXCEPT !.sent = @ \cup {"upload"}]
    /\ LET req == [authed |-> c_cmd.authed, function_id |-> <<"7">>, has_file |-> TRUE,
                   function_name |-> "init", owned |-> TRUE, filename |-> c_cmd.file_name,
                   system_upload |-> <<>>, body |-> OtherContent]
           r == upload_file(req, s_exists, s_files)
       IN  IF net = "down" THEN Raise /\ UNCHANGED serverVars
           ELSE IF net = "error" THEN End("upload_failed") /\ UNCHANGED serverVars
           ELSE /\ s_exists' = r.exists
                /\ s_files' = r.files
                /\ s_resp' = Responded("upload", r.code, req)
                /\ IF r.code = 200 THEN End("sent") ELSE End("upload_failed")
    /\ UNCHANGED <<call, daemonVars, fsVars, agentVars, c_cmd, c_polls, c_status, c_files>>

\* The status function that the agent runs for the status request: it uploads a
\* new status.json, and the run's log, as system uploads.
SystemUpload(name, body) ==
    [authed |-> TRUE, function_id |-> <<"7">>, has_file |-> TRUE, function_name |-> "upload",
     owned |-> TRUE, filename |-> name, system_upload |-> <<<<"t", "r", "u", "e">>>>,
     body |-> body]

EnvStatusUpload(doc) ==
    /\ c_log.triggered
    /\ s_exists
    /\ IF s_files[N_status] = <<>> THEN TRUE ELSE ~s_files[N_status][1].fresh
    /\ LET req == SystemUpload(N_status, doc)
           r == upload_file(req, s_exists, s_files)
       IN  /\ s_exists' = r.exists
           /\ s_files' = r.files
           /\ s_resp' = Responded("upload", r.code, req)
    /\ UNCHANGED <<call, daemonVars, fsVars, agentVars, cliVars>>

EnvLogUpload ==
    /\ c_log.triggered
    /\ s_exists
    /\ s_files[N_run_log] = <<>>
    /\ LET req == SystemUpload(N_run_log, OtherContent)
           r == upload_file(req, s_exists, s_files)
       IN  /\ s_exists' = r.exists
           /\ s_files' = r.files
           /\ s_resp' = Responded("upload", r.code, req)
    /\ UNCHANGED <<call, daemonVars, fsVars, agentVars, cliVars>>

(***************************************************************************)
(* Calls of the pure functions on bounded inputs.                          *)
(***************************************************************************)
\* The fields a time string is joined from, each with the integer int() gives
\* for it (none when int() raises).
TimeFields ==
    {[txt |-> <<"0", "0">>, val |-> <<0>>],
     [txt |-> <<"0", "1">>, val |-> <<1>>],
     [txt |-> <<"3", "0">>, val |-> <<30>>],
     [txt |-> <<"0">>, val |-> <<0>>],
     [txt |-> <<"-", "1">>, val |-> <<0 - 1>>],
     [txt |-> <<" ", "2">>, val |-> <<2>>],
     [txt |-> <<>>, val |-> <<>>],
     [txt |-> <<"b", "a", "d">>, val |-> <<>>]}

RECURSIVE JoinFields(_)
JoinFields(fs) ==
    IF Len(fs) = 1 THEN fs[1].txt ELSE fs[1].txt \o <<":">> \o JoinFields(Tail(fs))

TimeInit ==
    \E n \in 1..MaxFields : \E fs \in [1..n -> TimeFields] :
        call = [fn |-> "parse_time_to_minutes", fields |-> fs, arg |-> JoinFields(fs),
                done |-> FALSE, ret |-> 0]

CallParseTime ==
    /\ call.fn = "parse_time_to_minutes"
    /\ ~call.done
    /\ call' = [call EXCEPT !.done = TRUE, !.ret = parse_time_to_minutes(call.arg)]
    /\ UNCHANGED <<daemonVars, fsVars, agentVars, serverVars, cliVars>>

\* The run ids of the selection inputs: the key, the integer int() gives for it
\* (none when it raises), and its rank in the order of str.
PickIds ==
    {[rid |-> <<"0", "2">>, num |-> <<2>>, lex |-> 1],
     [rid |-> <<"1">>, num |-> <<1>>, lex |-> 2],
     [rid |-> <<"1", "0">>, num |-> <<10>>, lex |-> 3],
     [rid |-> <<"2">>, num |-> <<2>>, lex |-> 4],
     [rid |-> <<"a">>, num |-> <<>>, lex |-> 5]}

\* active_run_id values with what str() gives for them.
PickActive ==
    {[val |-> <<>>, str |-> <<>>],
     [val |-> <<1>>, str |-> <<"1">>],
     [val |-> <<2>>, str |-> <<"2">>],
     [val |-> <<10>>, str |-> <<"1", "0">>]}

RunStates == {"QUEUED", "RUNNING", "FINISHED", "FAILED"}

PickInit ==
    \E n \in 0..MaxPickRuns : \E ids \in [1..n -> PickIds] :
    \E sts \in [1..n -> RunStates] : \E a \in PickActive :
        /\ \A i, k \in 1..n : ids[i] = ids[k] => i = k
        /\ call = [fn |-> "pick_queued_run", ids |-> ids, active |-> a,
                   runs |-> [i \in 1..n |-> [rid |-> ids[i].rid, state |-> sts[i]]],
                   done |-> FALSE, ret |-> <<>>]

CallPickQueuedRun ==
    /\ call.fn = "pick_queued_run"
    /\ ~call.done
    /\ call' = [call EXCEPT !.done = TRUE,
                            !.ret = pick_queued_run(call.runs, call.active.val)]
    /\ UNCHANGED <<daemonVars, fsVars, agentVars, serverVars, cliVars>>

\* The number part of a memory string, with the value float() gives for it as a
\* fraction (none when float() raises).
MemNumbers ==
    {[txt |-> <<"2">>, val |-> <<[num |-> 2, den |-> 1]>>],
     [txt |-> <<"8", "0", "0", "0">>, val |-> <<[num |-> 8000, den |-> 1]>>],
     [txt |-> <<"4", "0", "9", "6">>, val |-> <<[num |-> 4096, den |-> 1]>>],
     [txt |-> <<"1", ".", "5">>, val |-> <<[num |-> 3, den |-> 2]>>],
     [txt |-> <<"0", ".", "3">>, val |-> <<[num |-> 3, den |-> 10]>>],
     [txt |-> <<".", "5">>, val |-> <<[num |-> 1, den |-> 2]>>],
     [txt |-> <<"1", ".">>, val |-> <<[num |-> 1, den |-> 1]>>],
     [txt |-> <<"-", "1", ".", "5">>, val |-> <<[num |-> 0 - 3, den |-> 2]>>],
     [txt |-> <<>>, val |-> <<>>],
     [txt |-> <<"b", "a", "d">>, val |-> <<>>]}

\* The suffix of a memory string, with the unit it stands for.
MemSuffixes ==
    {[txt |-> <<>>, unit |-> ""],
     [txt |-> <<"G">>, unit |-> "G"],
     [txt |-> <<"g">>, unit |-> "G"],
     [txt |-> <<"M">>, unit |-> "M"],
     [txt |-> <<"m">>, unit |-> "M"],
     [txt |-> <<"G", "B">>, unit |-> "other"]}

Blanks == {<<>>, <<" ">>}

MemInit ==
    \E n \in MemNumbers, x \in MemSuffixes, lead \in Blanks, mid \in Blanks,
       trail \in Blanks :
        call = [fn |-> "parse_mem_to_mb", number |-> n, suffix |-> x,
                arg |-> lead \o n.txt \o mid \o x.txt \o trail,
                done |-> FALSE, ret |-> <<>>]

CallParseMem ==
    /\ call.fn = "parse_mem_to_mb"
    /\ ~call.done
    /\ call' = [call EXCEPT !.done = TRUE, !.ret = parse_mem_to_mb(call.arg)]
    /\ UNCHANGED <<daemonVars, fsVars, agentVars, serverVars, cliVars>>

\* cpus_per_task values, each with the number of cpus it stands for (none when it
\* is no number).
ProfileCpus ==
    {[val |-> NoValue, num |-> <<1>>],
     [val |-> IntValue(0), num |-> <<0>>],
     [val |-> IntValue(1), num |-> <<1>>],
     [val |-> IntValue(3), num |-> <<3>>],
     [val |-> IntValue(4), num |-> <<4>>],
     [val |-> IntValue(0 - 2), num |-> <<0 - 2>>],
     [val |-> StrValue(<<"4">>), num |-> <<4>>],
     [val |-> StrValue(<<"0">>), num |-> <<0>>],
     [val |-> StrValue(<<"a", "b", "d">>), num |-> <<>>]}

ProfileTimes ==
    {NoValue, StrValue(<<"0", "1", ":", "3", "0", ":", "0", "0">>),
     StrValue(<<"b", "a", "d">>)}

ProfilePartitions == {NoValue, StrValue(<<"g", "p", "u">>)}

\* mem values: absent, an int, or a string of a number and a suffix, each with the
\* megabytes the string stands for (none when it does not parse).
ProfileMems ==
    {[val |-> NoValue, mb |-> <<2048>>], [val |-> StrValue(<<>>), mb |-> <<2048>>],
     [val |-> IntValue(4096), mb |-> <<>>]}
    \cup {[val |-> StrValue(n.txt \o x.txt),
           mb |-> IF n.val = <<>> \/ x.unit = "other" THEN <<>>
                  ELSE <<TruncDiv(n.val[1].num * (IF x.unit = "G" THEN 1024 ELSE 1),
                                  n.val[1].den)>>] :
             n \in MemNumbers \ {[txt |-> <<>>, val |-> <<>>]},
             x \in MemSuffixes \ {[txt |-> <<>>, unit |-> ""]}}

ProfileInit ==
    \E c \in ProfileCpus, mm \in ProfileMems, tm \in ProfileTimes,
       pt \in ProfilePartitions :
        call = [fn |-> "ensure_profile", cpus |-> c, mem |-> mm,
                resources |-> [partition |-> pt, time |-> tm,
                               cpus_per_task |-> c.val, mem |-> mm.val],
                done |-> FALSE, ret |-> <<>>]

CallEnsureProfile ==
    /\ call.fn = "ensure_profile"
    /\ ~call.done
    /\ call' = [call EXCEPT !.done = TRUE, !.ret = <<ensure_profile(call.resources)>>]
    /\ UNCHANGED <<daemonVars, fsVars, agentVars, serverVars, cliVars>>

\* The lines of a log: no announcement, one, two of a kind, one of each kind.
LogLines ==
    {[plugin |-> <<>>, sbatch |-> <<>>]}
    \cup {[plugin |-> <<id>>, sbatch |-> <<>>] : id \in SlurmIds}
    \cup {[plugin |-> <<>>, sbatch |-> <<id>>] : id \in SlurmIds}
    \cup {[plugin |-> <<101, 102>>, sbatch |-> <<>>],
          [plugin |-> <<>>, sbatch |-> <<101, 102>>],
          [plugin |-> <<101>>, sbatch |-> <<102>>]}

\* What "for line in f" reads: the lines that ended, then the text after the last
\* newline, if any.
FileLines(c) == c.lines \o (IF c.tail = <<>> THEN <<>> ELSE <<c.tail[1].shown>>)

\* A log file: missing or empty; tail is the text after the last newline.
ScrapeInit ==
    \E exists \in BOOLEAN :
        call = [fn |-> "extract_slurm_job_ids_from_log", exists |-> exists,
                lines |-> <<>>, tail |-> <<>>, calls |-> 0, seen |-> <<>>,
                ret |-> <<>>]

\* The writer of the log appends a whole line.
LogAppendLine(line) ==
    /\ call.fn = "extract_slurm_job_ids_from_log"
    /\ call.tail = <<>>
    /\ Len(call.lines) < MaxLogLines
    /\ call' = [call EXCEPT !.exists = TRUE, !.lines = Append(@, line)]
    /\ UNCHANGED <<daemonVars, fsVars, agentVars, serverVars, cliVars>>

\* The writer appends the beginning of a line, up to a digit inside the number of
\* its announcement: "(\d+)\b" matches the digits written so far at the end of the
\* text.
LogAppendPartial(kind, id) ==
    /\ call.fn = "extract_slurm_job_ids_from_log"
    /\ call.tail = <<>>
    /\ Len(call.lines) < MaxLogLines
    /\ LET Line(n) == IF kind = "plugin" THEN [plugin |-> <<n>>, sbatch |-> <<>>]
                      ELSE [plugin |-> <<>>, sbatch |-> <<n>>]
       IN  call' = [call EXCEPT !.exists = TRUE,
                       !.tail = <<[shown |-> Line(id \div 10), whole |-> Line(id)]>>]
    /\ UNCHANGED <<daemonVars, fsVars, agentVars, serverVars, cliVars>>

\* The writer appends the rest of the line it began.
LogAppendRest ==
    /\ call.fn = "extract_slurm_job_ids_from_log"
    /\ call.tail # <<>>
    /\ call' = [call EXCEPT !.lines = Append(@, call.tail[1].whole), !.tail = <<>>]
    /\ UNCHANGED <<daemonVars, fsVars, agentVars, serverVars, cliVars>>

CallScrape ==
    /\ call.fn = "extract_slurm_job_ids_from_log"
    /\ call.calls < MaxScrapes
    /\ call' = [call EXCEPT
                   !.calls = @ + 1,
                   !.seen = FileLines(call),
                   !.ret = extract_slurm_job_ids_from_log(FileLines(call), call.exists)]
    /\ UNCHANGED <<daemonVars, fsVars, agentVars, serverVars, cliVars>>

(***************************************************************************)
(* Specifications.                                                         *)
(***************************************************************************)
Init == call = NoCall /\ DaemonInit({"42"}) /\ FsUnused /\ AgentUnused /\ ServerUnused /\ CliUnused

\* The daemon, the engine and the external enqueue action.
Next ==
    \/ MainLoopList
    \/ MainLoopSleep
    \/ HandleJobReject
    \/ HandleJobSelect
    \/ WriteRunning
    \/ SpawnEngine
    \/ MonitorPoll(FALSE)
    \/ MonitorLoad
    \/ MonitorWrite
    \/ MonitorSleep
    \/ FinalLoad(FALSE)
    \/ FinalWrite
    \/ \E id \in SlurmIds : EngineAnnounce(id)
    \/ \E code \in ExitCodes : EngineExit(code)
    \/ \E j \in DOMAIN disk, sf \in SnakefileValues, activate \in BOOLEAN :
           Enqueue(j, sf, activate)

Spec == Init /\ [][Next]_vars

\* The same, with scrapes that may find the log unreadable.
NextUnreadable ==
    \/ MainLoopList
    \/ MainLoopSleep
    \/ HandleJobReject
    \/ HandleJobSelect
    \/ WriteRunning
    \/ SpawnEngine
    \/ MonitorPoll(TRUE)
    \/ MonitorLoad
    \/ MonitorWrite
    \/ MonitorSleep
    \/ FinalLoad(TRUE)
    \/ FinalWrite
    \/ \E id \in SlurmIds : EngineAnnounce(id)
    \/ \E code \in ExitCodes : EngineExit(code)
    \/ \E j \in DOMAIN disk, sf \in SnakefileValues, activate \in BOOLEAN :
           Enqueue(j, sf, activate)

SpecUnreadable == Init /\ [][NextUnreadable]_vars

\* The daemon, the engine, the enqueue action and the external status refresh.
NextRefresh ==
    \/ Next
    \/ FinalLoadRaises
    \/ \E j \in DOMAIN disk : RefreshRead(j)
    \/ \E ws \in {"ACTIVE", "EXPIRED"} : RefreshWrite(ws)

SpecRefresh == Init /\ [][NextRefresh]_vars

\* Two job directories, each with one QUEUED run that can start, and faults of their
\* status files.
InitFaults ==
    /\ call = NoCall /\ DaemonInit({"41", "42"}) /\ FsUnused /\ AgentUnused /\ ServerUnused /\ CliUnused
    /\ \A j \in DOMAIN disk : disk[j] = InitDoc(JobDir, <<>>, "wf.smk")

NextFaults ==
    \/ MainLoopList
    \/ MainLoopSleep
    \/ HandleJobReject
    \/ HandleJobSelect
    \/ HandleJobRaises
    \/ WriteRunning
    \/ SpawnEngine
    \/ MonitorPoll(FALSE)
    \/ MonitorLoad
    \/ MonitorLoadRaises
    \/ MonitorWrite
    \/ MonitorSleep
    \/ FinalLoad(FALSE)
    \/ FinalLoadRaises
    \/ FinalWrite
    \/ \E id \in SlurmIds : EngineAnnounce(id)
    \/ \E code \in ExitCodes : EngineExit(code)
    \/ \E j \in DOMAIN disk : StatusFileCorrupt(j)
    \/ \E j \in DOMAIN disk : StatusFileRemove(j)

SpecFaults == InitFaults /\ [][NextFaults]_vars

\* One job directory with any initial document, and faults of its status file.
NextReject ==
    \/ MainLoopList
    \/ MainLoopSleep
    \/ HandleJobReject
    \/ HandleJobSelect
    \/ HandleJobRaises
    \/ WriteRunning
    \/ SpawnEngine
    \/ MonitorPoll(FALSE)
    \/ MonitorLoad
    \/ MonitorLoadRaises
    \/ MonitorWrite
    \/ MonitorSleep
    \/ FinalLoad(FALSE)
    \/ FinalLoadRaises
    \/ FinalWrite
    \/ \E id \in SlurmIds : EngineAnnounce(id)
    \/ \E code \in ExitCodes : EngineExit(code)
    \/ \E j \in DOMAIN disk : StatusFileCorrupt(j)
    \/ \E j \in DOMAIN disk : StatusFileRemove(j)

SpecReject == Init /\ [][NextReject]_vars

\* Two job directories, each with a QUEUED run, and a daemon that keeps running:
\* main_loop's "while True" and handle_job's monitor loop always take their next
\* step, while nothing makes an engine process exit.
DaemonStep ==
    \/ MainLoopList
    \/ MainLoopSleep
    \/ HandleJobReject
    \/ HandleJobSelect
    \/ WriteRunning
    \/ SpawnEngine
    \/ MonitorPoll(FALSE)
    \/ MonitorLoad
    \/ MonitorWrite
    \/ MonitorSleep
    \/ FinalLoad(FALSE)
    \/ FinalWrite

NextJobs ==
    \/ MainLoopList
    \/ MainLoopSleep
    \/ HandleJobReject
    \/ HandleJobSelect
    \/ WriteRunning
    \/ SpawnEngine
    \/ MonitorPoll(FALSE)
    \/ MonitorLoad
    \/ MonitorWrite
    \/ MonitorSleep
    \/ FinalLoad(FALSE)
    \/ FinalWrite
    \/ \E id \in SlurmIds : EngineAnnounce(id)
    \/ \E code \in ExitCodes : EngineExit(code)

SpecJobs == InitFaults /\ [][NextJobs]_vars /\ WF_vars(DaemonStep)

\* The daemon with a failing profile generation or engine spawn, stops of the
\* daemon process, and restarts. The daemon keeps being scheduled (an ended
\* daemon is started again) and a spawned engine process eventually exits.
NextRestart ==
    \/ MainLoopList
    \/ MainLoopSleep
    \/ HandleJobReject
    \/ HandleJobSelect
    \/ WriteRunning
    \/ SpawnEngine
    \/ SpawnRaises
    \/ MonitorPoll(FALSE)
    \/ MonitorLoad
    \/ MonitorWrite
    \/ MonitorSleep
    \/ FinalLoad(FALSE)
    \/ FinalWrite
    \/ DaemonKill
    \/ DaemonRestart
    \/ \E id \in SlurmIds : EngineAnnounce(id)
    \/ \E code \in ExitCodes : EngineExit(code)
    \/ \E j \in DOMAIN disk, sf \in SnakefileValues, activate \in BOOLEAN :
           Enqueue(j, sf, activate)

SpecRestart ==
    /\ Init
    /\ [][NextRestart]_vars
    /\ WF_vars(DaemonStep \/ DaemonRestart)
    /\ WF_vars(\E code \in ExitCodes : EngineExit(code))

\* The same scheduling without failures, stops and restarts.
SpecFair ==
    /\ Init
    /\ [][Next]_vars
    /\ WF_vars(DaemonStep)
    /\ WF_vars(\E code \in ExitCodes : EngineExit(code))

\* Two callers of atomic_write_json on one path, and a reader of the path.
InitAtomic == call = NoCall /\ DaemonUnused /\ FsInit /\ AgentUnused /\ ServerUnused /\ CliUnused

NextAtomic ==
    \/ \E w \in Writers, d \in WrittenDocs : WriterOpen(w, d)
    \/ \E w \in Writers : WriterDump(w)
    \/ \E w \in Writers : WriterReplace(w)
    \/ ReaderLoad

SpecAtomic == InitAtomic /\ [][NextAtomic]_vars

InitTime == TimeInit /\ DaemonUnused /\ FsUnused /\ AgentUnused /\ ServerUnused /\ CliUnused

SpecTime == InitTime /\ [][CallParseTime]_vars

InitMem == MemInit /\ DaemonUnused /\ FsUnused /\ AgentUnused /\ ServerUnused /\ CliUnused

SpecMem == InitMem /\ [][CallParseMem]_vars

InitProfile == ProfileInit /\ DaemonUnused /\ FsUnused /\ AgentUnused /\ ServerUnused /\ CliUnused

SpecProfile == InitProfile /\ [][CallEnsureProfile]_vars

InitScrape == ScrapeInit /\ DaemonUnused /\ FsUnused /\ AgentUnused /\ ServerUnused /\ CliUnused

NextScrape ==
    \/ \E line \in LogLines : LogAppendLine(line)
    \/ \E kind \in {"plugin", "sbatch"}, id \in SlurmIds : LogAppendPartial(kind, id)
    \/ LogAppendRest
    \/ CallScrape

SpecScrape == InitScrape /\ [][NextScrape]_vars

\* One invocation of the agent.
InitAgent ==
    call = NoCall /\ DaemonUnused /\ FsUnused /\ AgentInit /\ ServerUnused /\ CliUnused

NextAgent ==
    \/ \E pending \in BOOLEAN : AgentChecksum(pending)
    \/ AgentChecksumRaises
    \/ \E job \in AgentJobs : AgentFetch(job)
    \/ \E n \in 0..MaxRows : \E rows \in [1..n -> SacctRows], fails \in BOOLEAN :
           AgentProbe(rows, fails)
    \/ \E present \in BOOLEAN : AgentHook(present)
    \/ AgentReport
    \/ \E stdout \in ScriptOutputs, returncode \in ScriptReturnCodes :
           AgentExecute(stdout, returncode)
    \/ AgentClassify

SpecAgent == InitAgent /\ [][NextAgent]_vars

InitServer ==
    call = NoCall /\ DaemonUnused /\ FsUnused /\ AgentUnused /\ ServerInit /\ CliUnused

\* Requests of any client to the routes that change the job folder.
NextServer ==
    \/ \E req \in UploadRequests : SrvUpload(req)
    \/ \E req \in DeleteRequests : SrvDeleteFile(req)
    \/ \E req \in DeleteRequests : SrvDeleteJob(req)

SpecServer == InitServer /\ [][NextServer]_vars

InitCli == call = NoCall /\ DaemonUnused /\ FsUnused /\ AgentUnused /\ CliInit

\* The steps of the command.
CliStep ==
    \/ CliEnter
    \/ \E net \in Net : CliPreList(net)
    \/ \E net \in Net : CliDelList(net)
    \/ \E net \in Net, remove_raises \in BOOLEAN : CliDelDelete(net, remove_raises)
    \/ \E net \in Net : CliTrigger(net)
    \/ \E net \in Net : CliPoll(net)
    \/ \E net \in Net : CliFetch(net)
    \/ \E net \in Net : CliSendUpload(net)
    \/ \E net \in Net : CliSendPost(net)
    \/ \E net \in Net : CliLogPoll(net)
    \/ \E net \in Net : CliLogFetch(net)
    \/ \E net \in Net : CliNewPost(net)
    \/ \E net \in Net : CliNewUpload(net)

NextCli ==
    \/ CliEnter
    \/ \E net \in Net : CliPreList(net)
    \/ \E net \in Net : CliDelList(net)
    \/ \E net \in Net, remove_raises \in BOOLEAN : CliDelDelete(net, remove_raises)
    \/ \E net \in Net : CliTrigger(net)
    \/ \E net \in Net : CliPoll(net)
    \/ \E net \in Net : CliFetch(net)
    \/ \E net \in Net : CliSendUpload(net)
    \/ \E net \in Net : CliSendPost(net)
    \/ \E net \in Net : CliLogPoll(net)
    \/ \E net \in Net : CliLogFetch(net)
    \/ \E net \in Net : CliNewPost(net)
    \/ \E net \in Net : CliNewUpload(net)
    \/ \E doc \in FreshDocs : EnvStatusUpload(doc)
    \/ EnvLogUpload

\* Every request of the command is answered or fails, and the command goes on;
\* nothing is assumed of the agent.
SpecCli == InitCli /\ [][NextCli]_vars /\ WF_vars(CliStep)

InitPick == PickInit /\ DaemonUnused /\ FsUnused /\ AgentUnused /\ ServerUnused /\ CliUnused

SpecPick == InitPick /\ [][CallPickQueuedRun]_vars

(***************************************************************************)
(* Properties.                                                             *)
(***************************************************************************)
Terminal == {"FINISHED", "FAILED"}

RunningRuns(status) == {i \in 1..Len(status.runs) : status.runs[i].state = "RUNNING"}

\* C1: in every status document on disk, after any sequence of daemon poll cycles,
\* engine exits and enqueue actions, at most one run of the job is RUNNING.
C1_AtMostOneRunning ==
    \A j \in DOMAIN disk : Cardinality(RunningRuns(disk[j])) <= 1

\* A run is RUNNING on disk after an earlier run of the job reached its final state.
C1_Witness ==
    \E j \in DOMAIN disk : \E i, k \in 1..Len(disk[j].runs) :
        /\ disk[j].runs[i].state \in Terminal
        /\ disk[j].runs[k].state = "RUNNING"
        /\ spawns[j][IntOf(disk[j].runs[k].rid)] = 1

\* The run r of document doc carries the RUNNING mark of handle_job.
MarkedRunning(doc, r) ==
    /\ HasRun(doc, r)
    /\ RunOf(doc, r).state = "RUNNING"
    /\ RunOf(doc, r).started # ""
    /\ RunOf(doc, r).slurm # <<>>

\* C2: the document with the selected run RUNNING, a started timestamp and an empty
\* slurm record is on disk, written by the daemon, when the engine is spawned; and
\* while the engine of a run is alive the daemon's last write never has the run QUEUED.
C2_RunningPersistedBeforeSpawn ==
    /\ [][(proc = <<>> /\ proc' # <<>>) =>
            LET j == proc'[1].job
                r == proc'[1].run
            IN  /\ daemon_last[j] # <<>>
                /\ MarkedRunning(daemon_last[j][1], r)
                /\ MarkedRunning(disk[j], r)
                /\ RunOf(disk[j], r).slurm[1].job_ids = <<>>
                /\ RunOf(disk[j], r).slurm[1].jobs_submitted = 0]_vars
    /\ [](EngineAlive =>
            /\ daemon_last[proc[1].job] # <<>>
            /\ HasRun(daemon_last[proc[1].job][1], proc[1].run)
            /\ RunOf(daemon_last[proc[1].job][1], proc[1].run).state # "QUEUED")

\* The engine is alive and has announced an id that the daemon has not recorded yet.
C2_Witness ==
    /\ EngineAlive
    /\ logs[proc[1].job][IntOf(proc[1].run)] # <<>>
    /\ MarkedRunning(disk[proc[1].job], proc[1].run)
    /\ RunOf(disk[proc[1].job], proc[1].run).slurm[1].job_ids = <<>>

\* C3: the daemon spawns the engine at most once for a run, over any number of poll
\* cycles.
C3_SpawnedAtMostOnce ==
    \A j \in DOMAIN spawns : \A n \in RunNumbers : spawns[j][n] <= 1

\* Two runs were launched once each, and the daemon went on to a later poll cycle.
C3_Witness ==
    \E j \in DOMAIN spawns :
        /\ spawns[j][1] = 1
        /\ spawns[j][2] = 1
        /\ proc = <<>>
        /\ d_pc = "sleep"

\* The daemon has persisted the final document of run n of job j.
Finalized(j, n) ==
    /\ exited[j][n] # <<>>
    /\ ~(d_job = j /\ d_run = StrOf(n))

\* C4: the document the daemon persists after the engine exited with code c has the
\* run FINISHED if c = 0 and FAILED otherwise, finished set and snakemake_exit_code = c.
C4_FinalStateFromExitCode ==
    \A j \in DOMAIN exited : \A n \in RunNumbers :
        Finalized(j, n) =>
            LET c == exited[j][n][1]
                r == RunOf(daemon_last[j][1], StrOf(n))
            IN  /\ (r.state = "FINISHED") <=> (c = 0)
                /\ (r.state = "FAILED") <=> (c # 0)
                /\ r.finished # ""
                /\ r.exit_code = <<c>>

\* One run was finalized after exit code 0 and another after exit code 1.
C4_Witness ==
    \E j \in DOMAIN exited :
        /\ Finalized(j, 1) /\ exited[j][1] = <<0>>
        /\ Finalized(j, 2) /\ exited[j][2] = <<1>>
        /\ RunOf(disk[j], StrOf(1)).state = "FINISHED"
        /\ RunOf(disk[j], StrOf(2)).state = "FAILED"

\* C5: once the document on disk shows a run FINISHED or FAILED, every later
\* document on disk shows it in that state with that finished timestamp.
C5_TerminalOnce ==
    [][\A j \in DOMAIN disk : \A i \in 1..Len(disk[j].runs) :
          disk[j].runs[i].state \in Terminal =>
              /\ HasRun(disk'[j], disk[j].runs[i].rid)
              /\ RunOf(disk'[j], disk[j].runs[i].rid).state = disk[j].runs[i].state
              /\ RunOf(disk'[j], disk[j].runs[i].rid).finished = disk[j].runs[i].finished]_vars

\* C6: a reader of the status file never reads a partially written document, and
\* when every writer has ended the file holds the document of a write that completed.
C6_NoPartialDocument ==
    /\ observed # <<>> => IsComplete(observed[1])
    /\ (\A w \in Writers : writers[w].pc \in {"done", "raised"}) =>
           \E w \in Writers :
               /\ writers[w].pc = "done"
               /\ inodes[dirent.path[1]] = Chunks(writers[w].doc)

PersistedIds(j, rid) ==
    IF daemon_last[j] = <<>> THEN {}
    ELSE IF ~HasRun(daemon_last[j][1], rid) THEN {}
    ELSE IF RunOf(daemon_last[j][1], rid).slurm = <<>> THEN {}
    ELSE Range(RunOf(daemon_last[j][1], rid).slurm[1].job_ids)

\* C7: the job_ids the daemon persists for a run only grow, also when a scrape
\* finds the log unreadable.
C7_JobIdsOnlyGrow ==
    [][\A j \in DOMAIN daemon_last : \A n \in RunNumbers :
          PersistedIds(j, StrOf(n)) \subseteq PersistedIds(j, StrOf(n))']_vars

\* The QUEUED run ids of a selection input, with their int() and str order.
QueuedOf(c) == {c.ids[i] : i \in {k \in 1..Len(c.runs) : c.runs[k].state = "QUEUED"}}

\* C8: pick_queued_run returns none exactly when no run is QUEUED; otherwise the
\* active run id when it names a QUEUED run, else the QUEUED id of the least numeric
\* value (the lexically least one when a QUEUED id is not numeric).
C8_PickQueuedRun ==
    (call.fn = "pick_queued_run" /\ call.done) =>
        LET Q == QueuedOf(call)
        IN  /\ (call.ret = <<>>) <=> (Q = {})
            /\ Q # {} =>
                 \E q \in Q :
                    /\ call.ret = <<q.rid>>
                    /\ IF call.active.val # <<>> /\ \E a \in Q : a.rid = call.active.str
                       THEN q.rid = call.active.str
                       ELSE IF \A o \in Q : o.num # <<>>
                       THEN \A o \in Q : q.num[1] <= o.num[1]
                       ELSE \A o \in Q : q.lex <= o.lex

\* Runs {1: QUEUED, 2: QUEUED} with active_run_id = 2 give "2".
C8_Witness ==
    /\ call.fn = "pick_queued_run" /\ call.done
    /\ call.runs = <<[rid |-> <<"1">>, state |-> "QUEUED"],
                     [rid |-> <<"2">>, state |-> "QUEUED"]>>
    /\ call.active.val = <<2>>
    /\ call.ret = <<<<"2">>>>

TimeCall(arg) == call.fn = "parse_time_to_minutes" /\ call.done /\ call.arg = arg

T_013000 == <<"0", "1", ":", "3", "0", ":", "0", "0">>
T_000001 == <<"0", "0", ":", "0", "0", ":", "0", "1">>
T_bad == <<"b", "a", "d">>

\* C9 as stated: "01:30:00" gives 91, "00:00:01" gives 1 and "bad" gives 60.
C9_Examples_Original ==
    /\ TimeCall(T_013000) => call.ret = 91
    /\ TimeCall(T_000001) => call.ret = 1
    /\ TimeCall(T_bad) => call.ret = 60

\* C9 (amended): parse_time_to_minutes maps "01:30:00" to 90, "00:00:01" to 1 and
\* "bad" to 60.
C9_Examples ==
    /\ TimeCall(T_013000) => call.ret = 90
    /\ TimeCall(T_000001) => call.ret = 1
    /\ TimeCall(T_bad) => call.ret = 60

C9_Witness == TimeCall(T_013000) /\ call.ret = 90

\* The three fields of a time string are integers.
ThreeInts(c) == Len(c.fields) = 3 /\ \A i \in 1..3 : c.fields[i].val # <<>>

\* C10 as stated: HH*60 + MM, plus one when SS is nonzero; 60 for every other string.
C10_RoundUp_Original ==
    (call.fn = "parse_time_to_minutes" /\ call.done) =>
        IF ThreeInts(call)
        THEN call.ret = call.fields[1].val[1] * 60 + call.fields[2].val[1]
                        + (IF call.fields[3].val[1] # 0 THEN 1 ELSE 0)
        ELSE call.ret = 60

\* C10 (amended): HH*60 + MM, plus one when SS is greater than zero, and never less
\* than 1; 60 for every string that does not split into three integer fields.
C10_RoundUp ==
    (call.fn = "parse_time_to_minutes" /\ call.done) =>
        IF ThreeInts(call)
        THEN call.ret = Max(1, call.fields[1].val[1] * 60 + call.fields[2].val[1]
                               + (IF call.fields[3].val[1] > 0 THEN 1 ELSE 0))
        ELSE call.ret = 60

\* Nonzero seconds rounded a time of at least a minute up.
C10_Witness ==
    /\ call.fn = "parse_time_to_minutes" /\ call.done
    /\ ThreeInts(call)
    /\ call.fields[3].val[1] > 0
    /\ call.fields[1].val[1] * 60 + call.fields[2].val[1] >= 1
    /\ call.ret = call.fields[1].val[1] * 60 + call.fields[2].val[1] + 1

MemCall(arg) == call.fn = "parse_mem_to_mb" /\ call.done /\ call.arg = arg

\* The unit of a memory input in megabytes (none for a suffix that is no unit).
MemFactor(c) ==
    IF c.suffix.unit = "G" THEN <<1024>>
    ELSE IF c.suffix.unit \in {"M", ""} THEN <<1>>
    ELSE <<>>

\* The memory input is a number with a unit ("bad", "", "2GB" and "G" are not).
MemParses(c) == c.number.val # <<>> /\ MemFactor(c) # <<>>

\* C11 as stated: value*1024 for a trailing G, the value for a trailing M or no
\* suffix, absent for an empty or unparsable string.
C11_ParseMem_Original ==
    (call.fn = "parse_mem_to_mb" /\ call.done) =>
        IF MemParses(call)
        THEN /\ call.ret # <<>>
             /\ call.ret[1] * call.number.val[1].den
                    = call.number.val[1].num * MemFactor(call)[1]
        ELSE call.ret = <<>>

\* r is x = num/den with its fraction cut off.
IsTruncationOf(r, num, den) ==
    IF num >= 0 THEN r * den <= num /\ num < (r + 1) * den
    ELSE (r - 1) * den < num /\ num <= r * den

\* C11 (amended): parse_mem_to_mb returns the integer part of value*1024 for a
\* trailing G or g, of the value for a trailing M or m or no suffix, and absent for an
\* empty or unparsable string; "2G" gives 2048, "8000M" gives 8000, "" gives absent.
C11_ParseMem ==
    /\ (call.fn = "parse_mem_to_mb" /\ call.done) =>
          IF MemParses(call)
          THEN /\ call.ret # <<>>
               /\ IsTruncationOf(call.ret[1],
                      call.number.val[1].num * MemFactor(call)[1],
                      call.number.val[1].den)
          ELSE call.ret = <<>>
    /\ MemCall(<<"2", "G">>) => call.ret = <<2048>>
    /\ MemCall(<<"8", "0", "0", "0", "M">>) => call.ret = <<8000>>
    /\ MemCall(<<>>) => call.ret = <<>>

\* "0.3G" gave 307, the integer part of 307.2.
C11_Witness == MemCall(<<"0", ".", "3", "G">>) /\ call.ret = <<307>>

\* C12: the profile has mem_mb_per_cpu = max(1, floor(total_memory_mb / max(1, cpus)))
\* whenever the total memory string could be parsed (4096 MB and 4 cpus give 1024),
\* and omits mem_mb_per_cpu only when the total memory could not be parsed.
C12_MemPerCpu ==
    (call.fn = "ensure_profile" /\ call.done) =>
        LET per_cpu == call.ret[1].mem_mb_per_cpu
        IN  /\ call.mem.mb # <<>> => per_cpu # <<>>
            /\ (call.mem.mb # <<>> /\ call.cpus.num # <<>>) =>
                  per_cpu = <<Max(1, call.mem.mb[1] \div Max(1, call.cpus.num[1]))>>
            /\ per_cpu = <<>> => call.mem.mb = <<>>

\* Every integer that either pattern matches in the lines.
RECURSIVE AnnouncedIn(_)
AnnouncedIn(lines) ==
    IF lines = <<>> THEN {}
    ELSE Range(Head(lines).plugin) \cup Range(Head(lines).sbatch)
         \cup AnnouncedIn(Tail(lines))

IsSortedUnique(s) == \A i, k \in 1..Len(s) : i < k => s[i] < s[k]

\* C13: extract_slurm_job_ids_from_log returns, sorted ascending and without
\* duplicates, exactly the integers announced in the log by either pattern, also for
\* a line with more than one announcement or announcements of both kinds; for a
\* missing log it returns the empty list.
C13_AllAnnounced ==
    (call.fn = "extract_slurm_job_ids_from_log" /\ call.calls > 0) =>
        /\ IsSortedUnique(call.ret)
        /\ Range(call.ret) = AnnouncedIn(call.seen)
        /\ call.seen = <<>> => call.ret = <<>>

\* C14: two calls of extract_slurm_job_ids_from_log on an unchanged log return the
\* same result, and while the log only grows by appending, the result of a call
\* contains the result of the call before it.
C14_IdempotentMonotone ==
    [][(call.fn = "extract_slurm_job_ids_from_log" /\ call.calls > 0
            /\ call'.calls = call.calls + 1) =>
          /\ call'.seen = call.seen => call'.ret = call.ret
          /\ Range(call.ret) \subseteq Range(call'.ret)]_vars

\* C15: a pass of the monitor loop whose scrape equals last_ids while the engine is
\* alive goes on to the sleep without a write: the document on disk and the daemon's
\* last write are the same after the pass, and the sleep leads back to the poll.
C15_NoWriteWhenUnchanged ==
    /\ [][(d_pc = "monitor" /\ d_pc' # "monitor" /\ d_last_ids' = d_last_ids
              /\ d_rc' = <<>>) =>
            /\ d_pc' = "mon_sleep"
            /\ disk' = disk
            /\ daemon_last' = daemon_last
            /\ d_status' = d_status]_vars
    /\ [][d_pc = "mon_sleep" =>
            /\ d_pc' \in {"mon_sleep", "monitor"}
            /\ daemon_last' = daemon_last]_vars

\* The daemon sleeps after a pass that found no id in the log of a live engine: the
\* document on disk still has the empty slurm record of the RUNNING mark.
C15_Witness ==
    /\ d_pc = "mon_sleep"
    /\ EngineAlive
    /\ d_last_ids = {}
    /\ daemon_last[d_job] = <<disk[d_job]>>
    /\ RunOf(disk[d_job], d_run).slurm[1].job_ids = <<>>

\* C16: an error local to one job (status file corrupt, status file removed while
\* its run is monitored, run entry missing) never halts the daemon's polling loop:
\* the daemon process does not end on it, and goes on to the other job directories.
C16_ErrorsStayLocal == d_pc # "crashed"

IsStateReport(ev) == ev.op = "PUT" /\ ev.arg = "state"

\* The states the invocation has reported upstream, in order.
StateReports ==
    LET puts == SelectSeq(a_log, IsStateReport)
    IN  [i \in 1..Len(puts) |-> puts[i].state]

Ran(program) == \E i \in 1..Len(a_log) : a_log[i].op = "exec" /\ a_log[i].arg = program

\* The states that the rows of the sacct output name.
ProbedRows == a_log[CHOOSE i \in 1..Len(a_log) : a_log[i].arg = "sacct"].rows

Names(state) == Ran("sacct") /\ InSeq(state, ProbedRows)

HasSlurmId == a_job # <<>> /\ a_job[1].slurm_id # <<>>

\* C17: when the fetched job carries a slurm_id and the accounting text contains
\* PENDING or RUNNING, the invocation reports no state, does not run the
\* post-processing hook, and ends.
C17_NoReportWhileInFlight ==
    (HasSlurmId /\ (Names("PENDING") \/ Names("RUNNING"))) =>
        /\ StateReports = <<>>
        /\ ~Ran("post_slurm.sh")
        /\ a_pc = "exited"

\* The job carries slurm_id 500, sacct reported RUNNING, and the invocation ended.
C17_Witness ==
    /\ a_pc = "exited"
    /\ a_job = <<[kind |-> "job", function_id |-> 7, slurm_id |-> <<500>>]>>
    /\ Ran("sacct") /\ ProbedRows = <<"RUNNING">>
    /\ StateReports = <<>>

\* C18: when the fetched job carries a recorded slurm_id, the invocation never runs
\* the job's script, whatever sacct reports; it only probes the cluster state.
C18_NoExecutionWithSlurmId ==
    HasSlurmId =>
        /\ ~Ran("script")
        /\ a_pc \in {"probe", "hook", "report", "exited"}
        /\ a_pc = "exited" => Ran("sacct")

\* A job with a slurm_id was probed, sacct reported FAILED, and the invocation ended
\* with a report and without running the script.
C18_Witness ==
    /\ a_pc = "exited"
    /\ HasSlurmId
    /\ Ran("sacct") /\ ProbedRows = <<"FAILED">>
    /\ StateReports # <<>>
    /\ ~Ran("script")

\* The invocation ended after probing a terminal accounting text.
TerminalProbe ==
    /\ a_pc = "exited"
    /\ Ran("sacct")
    /\ ~Names("PENDING") /\ ~Names("RUNNING")

\* C19: for a terminal accounting text, CANCELLED is reported when the text contains
\* CANCELLED and FAILED when it contains FAILED; ProbFAILED is reported only when the
\* text matches none of the known terminal patterns, so the state left upstream for
\* a cancelled or failed job is CANCELLED or FAILED.
C19_CancelledOrFailedLeft ==
    TerminalProbe =>
        /\ Names("CANCELLED") => InSeq("CANCELLED", StateReports)
        /\ Names("FAILED") => InSeq("FAILED", StateReports)
        /\ InSeq("ProbFAILED", StateReports) =>
              ~Names("CANCELLED") /\ ~Names("FAILED")
        /\ (Names("CANCELLED") \/ Names("FAILED")) =>
              StateReports[Len(StateReports)] \in {"CANCELLED", "FAILED"}

\* C20: for a terminal accounting text that is empty after the header and every
\* COMPLETED marker are removed, the prober reports the state FINISHED.
C20_CompletedReportsFinished ==
    (TerminalProbe /\ \A i \in 1..Len(ProbedRows) : ProbedRows[i] = "COMPLETED") =>
        StateReports = <<"FINISHED">>

\* The post-processing hook was found by os.path.exists.
HookPresent ==
    \E i \in 1..Len(a_log) :
        a_log[i].op = "exists" /\ a_log[i].arg = "post_slurm.sh" /\ a_log[i].state = "True"

\* The positions of the history at which the post-processing hook ran.
HookRuns ==
    {i \in 1..Len(a_log) : a_log[i].op = "exec" /\ a_log[i].arg = "post_slurm.sh"}

\* C21: in an invocation that probes the cluster state, the post-processing hook runs
\* at most once, and only if it is present; every state report is made after the
\* hook has run when the hook is present; and an invocation that ended after a
\* terminal text has made a report, with the hook present or absent, and has run
\* the hook exactly once when it is present.
C21_HookOnceBeforeReport ==
    HasSlurmId =>
        /\ Cardinality(HookRuns) <= 1
        /\ HookRuns # {} => HookPresent
        /\ \A i \in 1..Len(a_log) :
              (IsStateReport(a_log[i]) /\ HookPresent) => \E h \in HookRuns : h < i
        /\ TerminalProbe =>
              /\ StateReports # <<>>
              /\ HookPresent => Cardinality(HookRuns) = 1

\* A terminal probe (sacct named FAILED) ended with the hook present: the hook ran
\* once and the reports follow it.
C21_Witness ==
    /\ TerminalProbe /\ ProbedRows = <<"FAILED">>
    /\ HookPresent
    /\ Cardinality(HookRuns) = 1
    /\ StateReports # <<>>
    /\ \A i \in 1..Len(a_log) : IsStateReport(a_log[i]) => \E h \in HookRuns : h < i

\* The invocation fetched a fresh job (no recorded slurm_id) and has ended.
FreshDone ==
    /\ a_job # <<>> /\ a_job[1].kind = "job" /\ a_job[1].slurm_id = <<>>
    /\ a_pc \in {"returned", "exited", "raised"}

\* The state PUTs of the invocation.
StatePuts == SelectSeq(a_log, IsStateReport)

\* The captured output without its trailing newlines.
Trimmed == RStripNewlines(a_result.stdout)

\* The text that follows the prefix "Submitted batch job".
AfterPrefix == LStrip(SubSeq(Trimmed, Len(K_Submitted) + 1, Len(Trimmed)))

\* The leading digits of s.
RECURSIVE DigitRun(_)
DigitRun(s) == IF s # <<>> /\ IsDigit(Head(s)) THEN <<Head(s)>> \o DigitRun(Tail(s)) ELSE <<>>

RunningReport(n) == PutState("BatchJobRunning", <<n>>)

\* The reports the classification of the captured output allows: a running state
\* with the id for a bare integer and for the prefix followed by the id alone; for
\* the prefix followed by the id and further text, a running state with that id
\* or FINISHED; FINISHED for every other output.
AllowedReports ==
    IF IsNumeric(Trimmed) THEN {RunningReport(DigitsValue(Trimmed))}
    ELSE IF StartsWith(Trimmed, K_Submitted) /\ DigitRun(AfterPrefix) # <<>>
    THEN IF DigitRun(AfterPrefix) = AfterPrefix
         THEN {RunningReport(DigitsValue(AfterPrefix))}
         ELSE {RunningReport(DigitsValue(DigitRun(AfterPrefix))), PutState("FINISHED", <<>>)}
    ELSE {PutState("FINISHED", <<>>)}

\* C22: an invocation that fetched a fresh job has run the script once and made
\* exactly one state report: BatchJobRunning with the id N when the output is the
\* bare integer N or begins with "Submitted batch job" followed by N, FINISHED
\* for every other output.
C22_FreshJobOneReport ==
    FreshDone =>
        /\ Cardinality({i \in 1..Len(a_log) :
                          a_log[i].op = "exec" /\ a_log[i].arg = "script"}) = 1
        /\ Len(StatePuts) = 1
        /\ StatePuts[1] \in AllowedReports

\* C23: when look_for_new_job answers "no work" or a malformed document, the
\* invocation runs no job script and no sacct and reports no state; for "no work"
\* it returns, for a malformed document it ends by exit() or by an exception.
C23_NoWorkOrMalformed ==
    (a_job # <<>> /\ a_job[1].kind \in {"Bad_request", "type", "detail"}) =>
        /\ ~Ran("script") /\ ~Ran("sacct") /\ ~Ran("post_slurm.sh")
        /\ StateReports = <<>>
        /\ a_job[1].kind = "Bad_request" => a_pc = "returned"
        /\ a_job[1].kind \in {"type", "detail"} => a_pc \in {"exited", "raised"}

\* The response carried a "type" key and the invocation ended by exit() with
\* nothing but the two GETs made (no checksum was pending).
C23_Witness ==
    /\ a_job # <<>> /\ a_job[1].kind = "type"
    /\ a_pc = "exited"
    /\ a_log = <<Event("GET", "checksum"), Event("GET", "job")>>

\* C24: when the script of a fresh job ends with a non-zero return code, the
\* invocation reports the ambiguous-failure state (ProbFAILED) and never FINISHED
\* or FAILED.
C24_ScriptFailureAmbiguous ==
    (FreshDone /\ a_result.returncode # 0) =>
        /\ InSeq("ProbFAILED", StateReports)
        /\ ~InSeq("FINISHED", StateReports)
        /\ ~InSeq("FAILED", StateReports)

\* The document of job j holds a QUEUED run.
HasQueued(j) ==
    Loads(disk[j]) /\ \E i \in 1..Len(disk[j].runs) : disk[j].runs[i].state = "QUEUED"

\* C25: different jobs proceed concurrently: a QUEUED run of a job is started by the
\* running daemon whether or not the engine of another job's run ever exits, so
\* its start does not wait for that engine.
C25_JobsConcurrent == \A j \in {"41", "42"} : HasQueued(j) ~> ~HasQueued(j)

\* A step in which the daemon persists the document of the monitor loop or the
\* final document.
DaemonWriteStep == d_pc \in {"mon_write", "final_write"} /\ d_pc' # d_pc

\* C29: a daemon monitor or finalize write loses no completed write of another actor
\* to fields outside the monitored run's slurm record: the workspace state that the
\* status refresh wrote is still on disk after the daemon's write.
C29_ExternalWriteKept ==
    [][DaemonWriteStep => disk'[d_job].ws = disk[d_job].ws]_vars

\* Document b is document a but for the slurm record of run rid; when a has no
\* entry for the run, b has one that holds nothing but the slurm record.
SameButSlurm(a, b, rid) ==
    /\ b.job_dir = a.job_dir /\ b.active = a.active /\ b.ws = a.ws
    /\ \A i \in 1..Len(a.runs) :
          /\ i <= Len(b.runs)
          /\ IF a.runs[i].rid = rid
             THEN b.runs[i] = [a.runs[i] EXCEPT !.slurm = b.runs[i].slurm]
             ELSE b.runs[i] = a.runs[i]
    /\ \A i \in (Len(a.runs) + 1)..Len(b.runs) :
          /\ i = Len(a.runs) + 1
          /\ b.runs[i] = [rid |-> rid, state |-> "", snakefile |-> "", started |-> "",
                          finished |-> "", log |-> <<>>, slurm |-> b.runs[i].slurm,
                          exit_code |-> <<>>]
          /\ \A k \in 1..Len(a.runs) : a.runs[k].rid # rid

\* C30: the document a monitor-loop pass writes is computed from the document it
\* reloaded from disk in that pass and differs from it only in the slurm record of
\* the monitored run (executor, job_ids, jobs_submitted, last_update); every other
\* key, other runs and the run's state and timestamps included, is written back
\* as it was read.
C30_MonitorWriteFromReload ==
    [][/\ (d_pc = "mon_load" /\ d_pc' = "mon_write") =>
             /\ SameButSlurm(disk[d_job], d_status'[1], d_run)
             /\ RunOf(d_status'[1], d_run).slurm =
                    <<SlurmRecord(SortSet(d_last_ids), now_ts)>>
       /\ (d_pc = "mon_write" /\ d_pc' # d_pc) => disk'[d_job] = d_status[1]]_vars

\* A monitor-loop write was made after a further run was enqueued behind the
\* daemon's back: the document on disk holds the ids of run 1 and the QUEUED run 2,
\* which the daemon's own last copy before this write did not have.
C30_Witness ==
    /\ d_pc = "mon_sleep"
    /\ d_run = StrOf(1)
    /\ Len(disk[d_job].runs) = 2
    /\ disk[d_job].runs[2].state = "QUEUED"
    /\ disk[d_job].runs[1].slurm # <<>>
    /\ disk[d_job].runs[1].slurm[1].job_ids # <<>>
    /\ daemon_last[d_job] = <<disk[d_job]>>

\* The request's system_upload field is set to true, in any letter case.
FlagSet(form_value) == form_value \in {<<<<"t", "r", "u", "e">>>>, <<<<"T", "r", "u", "e">>>>}

\* C28: the upload route stores a file named status.json, snakemake.log or slurm.log
\* only for a request that sets the system-upload flag, and an upload that is
\* rejected leaves every file of the job folder as it was.
C28_ReservedNeedsFlag ==
    [][/\ \A n \in reserved :
             (s_files'[n] # <<>> /\ s_files'[n] # s_files[n]) =>
                 /\ s_resp'.route = "upload" /\ s_resp'.filename = n
                 /\ FlagSet(s_resp'.system_upload)
       /\ (s_resp'.route = "upload" /\ s_resp'.code = 200 /\ s_resp'.filename \in reserved) =>
             FlagSet(s_resp'.system_upload)
       /\ (s_resp'.route = "upload" /\ s_resp'.code # 200) => s_files' = s_files]_vars

\* status.json was uploaded with system_upload=True and is stored, next to a file
\* with an ordinary name.
C28_Witness ==
    /\ s_resp = [route |-> "upload", code |-> 200, filename |-> N_status,
                 system_upload |-> <<<<"T", "r", "u", "e">>>>]
    /\ s_files[N_status] # <<>>
    /\ s_files[N_wf] # <<>>

\* The command is over: it returned, or an exception left it.
Ended == c_pc \in {"done", "raised"}

\* The retrieval of status.json gave up: a request of it was refused, or the
\* file did not appear, or it did not parse.
StatusRetrievalFailed ==
    c_end \in {"trigger_failed", "list_failed", "exhausted", "fetch_failed", "parse_failed"}

C27_SendsOnlyWhenFreshActive ==
    (c_cmd.job_id # <<>> /\ c_log.sent # {}) =>
        /\ c_status # <<>>
        /\ c_status[1].fresh
        /\ c_status[1].ws = "ACTIVE"

SlurmRecords(doc) == {doc.runs[i].slurm[1] : i \in {k \in 1..Len(doc.runs) : doc.runs[k].slurm # <<>>}}

\* C32: in every document the daemon persists, each run's slurm record has
\* jobs_submitted equal to the number of elements of job_ids, and job_ids sorted
\* ascending without duplicates.
C32_SlurmRecordConsistent ==
    \A j \in DOMAIN daemon_last :
        daemon_last[j] # <<>> =>
            \A rec \in SlurmRecords(daemon_last[j][1]) :
                /\ rec.jobs_submitted = Len(rec.job_ids)
                /\ IsSortedUnique(rec.job_ids)

\* While a run is RUNNING the monitor loop persisted a record of two ids, next to
\* the record of an earlier run of the job.
C32_Witness ==
    /\ daemon_last["42"] # <<>>
    /\ Cardinality(SlurmRecords(daemon_last["42"][1])) >= 2
    /\ \E i \in 1..Len(daemon_last["42"][1].runs) :
          /\ daemon_last["42"][1].runs[i].state = "RUNNING"
          /\ daemon_last["42"][1].runs[i].slurm # <<>>
          /\ daemon_last["42"][1].runs[i].slurm[1].job_ids = <<101, 102>>

\* handle_job is called for a job whose status file does not exist or whose
\* document is rejected, and returns.
RejectStep ==
    /\ d_pc = "iter"
    /\ d_todo # <<>>
    /\ d_todo' = Tail(d_todo)
    /\ \/ disk[Head(d_todo)] = NoFile
       \/ Loads(disk[Head(d_todo)]) /\ RejectReason(disk[Head(d_todo)]) # ""

\* C33: when handle_job rejects a job for this cycle it returns without spawning
\* an engine and leaves the status file as it was: no run changes state and
\* active_run_id is not modified; main_loop goes on with the next directory.
C33_RejectChangesNothing ==
    [][RejectStep =>
          /\ disk' = disk
          /\ daemon_last' = daemon_last
          /\ proc' = proc
          /\ spawns' = spawns
          /\ d_pc' = "iter"]_vars

\* The job of the listing was handled without any engine having been spawned, and
\* its document names a snakefile that job_dir does not hold.
C33_Witness ==
    /\ d_pc = "iter"
    /\ d_todo = <<>>
    /\ \A n \in RunNumbers : spawns["42"][n] = 0
    /\ Loads(disk["42"])
    /\ RejectReason(disk["42"]) = "snakefile not found"
    /\ disk["42"].runs[1].state = "QUEUED"

\* The events of the invocation's history with the given operation and argument.
EventsOf(op, arg) == {i \in 1..Len(a_log) : a_log[i].op = op /\ a_log[i].arg = arg}

\* The invocation ended in the checksum step, before look_for_new_job.
EndedInChecksum == a_pc = "raised" /\ a_job = <<>>

C35_ReturnedStatusFresh == c_status # <<>> => c_status[1].fresh

\* C36: an invocation that probed a terminal accounting text (neither PENDING nor
\* RUNNING in it) has made exactly one state report.
C36_TerminalProbeOneReport == TerminalProbe => Len(StateReports) = 1

\* The state on disk of run n of job "42", "" if there is no such run.
DiskState(n) ==
    IF Loads(disk["42"]) /\ HasRun(disk["42"], StrOf(n))
    THEN RunOf(disk["42"], StrOf(n)).state ELSE ""

\* C37: every run that the daemon marked RUNNING on disk eventually is FINISHED
\* or FAILED on disk, when the daemon keeps being scheduled and a spawned engine
\* eventually exits, also after a failed profile generation or spawn and after a
\* restart of the daemon.
C37_RunningReachesTerminal ==
    \A n \in RunNumbers : (DiskState(n) = "RUNNING") ~> (DiskState(n) \in {"FINISHED", "FAILED"})

\* Run n of job "42" is QUEUED on disk, job_dir is the execution directory and
\* the run's snakefile is a file of it.
ValidQueued(n) ==
    /\ DiskState(n) = "QUEUED"
    /\ disk["42"].job_dir = JobDir
    /\ RunOf(disk["42"], StrOf(n)).snakefile \in FilesInJobDir

\* C38: every QUEUED run whose snakefile exists is eventually started by the
\* daemon (marked RUNNING on disk and the engine spawned), also when another
\* QUEUED run of the job, which pick_queued_run selects first, has no snakefile
\* in job_dir.
C38_NoQueuedRunStarved ==
    \A n \in RunNumbers : ValidQueued(n) ~> (DiskState(n) # "QUEUED" /\ spawns["42"][n] > 0)

\* The fields a run has to carry in its state.
RunComplete(run) ==
    /\ run.state \in {"RUNNING", "FINISHED", "FAILED"} =>
          /\ run.snakefile # ""
          /\ run.started # ""
          /\ run.log # <<>>
          /\ run.slurm # <<>>
    /\ run.state \in {"FINISHED", "FAILED"} =>
          /\ run.finished # ""
          /\ run.exit_code # <<>>

\* Every run of the document the daemon persisted last for job j is complete.
PersistedComplete(j) ==
    daemon_last[j] # <<>> =>
        \A i \in 1..Len(daemon_last[j][1].runs) : RunComplete(daemon_last[j][1].runs[i])

\* A step in which handle_job persists a document: the RUNNING mark, a document
\* of the monitor loop, or the final document.
PersistStep == d_pc \in {"write_running", "mon_write", "final_write"} /\ d_pc' # d_pc

\* The document persisted in the step names as active_run_id the run that
\* handle_job is executing, which is the run marked RUNNING last.
PersistsActive == daemon_last'[d_job][1].active = <<IntOf(d_run)>>

ReloadStep == d_pc \in {"mon_load", "final_load"} /\ d_pc' \in {"mon_write", "final_write"}

====
